---- MODULE Spec2Model ----
(***************************************************************************)
(* Submission transfer and automatic evaluation pipeline of                *)
(* SmartSolutionBot: the evaluation coordinator (AutoJudgeService), its    *)
(* result cache, the first_track scorer, the submission update with its    *)
(* notification wrapper, and the chunked upload protocol.                  *)
(***************************************************************************)
EXTENDS Integers, Sequences, FiniteSets, TLC

(***************************************************************************)
(* Bounds of the model.                                                    *)
(***************************************************************************)
NumFlows == 2
NumHandlers == 2
MaxTrace == 5
MaxAdminUpdates == 1
MaxOtherUpdates == 1
MaxRows == 2
MaxRecords == 2
BonusSteps == 2
RoundSteps == 2
MaxSize == 10
MaxChunk == 3
MaxRegistrations == 2

Flows == 1..NumFlows
SubIds == 1..NumFlows
LockIds == 1..NumFlows
Handlers == 1..NumHandlers

(***************************************************************************)
(* State of the evaluation coordinator and the submission table.           *)
(***************************************************************************)
VARIABLES
    pc,           \* where each create flow (an upload handler) stands
    subs,         \* the Submission table: id -> record, NoSub when absent
    flow_sub,     \* the id of the record each flow created (a fresh uuid4), 0 before
    archive,      \* the artifact each flow uploaded
    track,        \* the slug of the track resolved for each flow
    context,      \* how the context lookups of each flow ended, "none" before
    run,          \* how the container run of each flow ended
    result,       \* _auto_from_submission's local result
    scorers,      \* AutoJudgeService._scorers: normalised slug -> scorer
    registered,   \* the register calls made at start-up, in order
    scorer,       \* the scorer evaluate_submission found for each flow
    results,      \* AutoJudgeService._results: id -> outcome, NoResult when absent
    judge_lock,   \* AutoJudgeService._judge_lock: NoLock or the lock object
    locks_made,   \* how many lock objects were constructed
    my_lock,      \* the lock object each flow got from _get_judge_lock
    locked,       \* asyncio.Lock._locked of each lock object
    waiters,      \* asyncio.Lock._waiters of each lock object
    launched,     \* whether a container was launched for the flow
    before,       \* the record of the flow's submission when its persist step began
    shown,        \* the outcomes each flow showed inline to its user
    notes,        \* per id, the notification messages handed to the bot
    bot_bound,    \* SubmissionNotificationService._bot is set
    admin_left    \* administrative ratings still to come

judgeVars ==
    << pc, subs, flow_sub, archive, track, context, run, result, scorers,
       registered, scorer, results, judge_lock, locks_made, my_lock, locked, waiters, launched, before, shown,
       notes, bot_bound, admin_left >>

(***************************************************************************)
(* State of a client of the result cache: the last two calls made.         *)
(***************************************************************************)
VARIABLES
    last_op,      \* the last call on the cache: what, which id, what it returned
    prev_op,      \* the call before it
    cache_was     \* the cache before the last call

cacheVars == << last_op, prev_op, cache_was >>

(***************************************************************************)
(* State of one call of update_submission under the notification wrapper.  *)
(***************************************************************************)
VARIABLES
    u_pc,         \* where the call stands
    u_payload,    \* the SubmissionUpdate passed
    u_prev,       \* prev_state: the snapshot, NoSub when it could not be taken
    u_updated,    \* the record the update returned
    u_sent,       \* the messages this call handed to the bot
    u_env,        \* what the collaborators did during the notify step
    u_ret,        \* what the call returned to its caller
    others_left   \* concurrent updates by other callers still to come

notifyVars == << u_pc, u_payload, u_prev, u_updated, u_sent, u_env, u_ret, others_left >>

(***************************************************************************)
(* State of one user's chat in submit mode: the FSM storage, the files on  *)
(* disk, and the document handlers in progress.                            *)
(***************************************************************************)
VARIABLES
    ui,           \* current_user.ui_mode
    fsm,          \* the FSM state of the chat
    data,         \* the FSM data of the chat (the multipart_* keys)
    tmp_files,    \* the part files under the session's tmp directory, by part number
    workspace,    \* the session's tmp directory exists on disk
    dest,         \* the file at plan.dest_path
    submitted,    \* the artifacts for which a Submission record was created
    reply,        \* the last answer sent to the chat
    event,        \* the last message received from the chat
    h_pc,         \* where each document handler stands
    h_doc,        \* the document each handler is processing
    h_data,       \* each handler's locals: what it read from the FSM data
    assemblies,   \* how many times the session's parts were assembled
    declared,     \* the total the user declared for the session
    first_sent,   \* the number of the first part the user sent in the session
    sent,         \* how many parts the user sent one after the other
    clean,        \* so far the user sent consecutive parts and every download worked
    trace         \* the parts sent, with what the handler did with each

xferVars ==
    << ui, fsm, data, tmp_files, workspace, dest, submitted, reply, event, h_pc, h_doc,
       h_data, assemblies, declared, first_sent, sent, clean, trace >>

(***************************************************************************)
(* State of one outbound delivery of a submission's artifact to an         *)
(* administrator (routers/submissions_admin.py).                           *)
(***************************************************************************)
VARIABLES
    d_pc,         \* where _send_submission_file stands
    d_file,       \* the artifact: whether it is on disk, and its bytes
    d_chunk_size, \* chunk_size
    d_total,      \* total_parts, 0 when the artifact is sent whole
    d_width,      \* width
    d_idx,        \* idx of the loop in _send_document_parts
    d_pos,        \* the read position of src
    d_chunk,      \* the chunk read for the current part
    d_tries,      \* how each attempt on the current part ended
    d_wait,       \* the seconds of the last asyncio.sleep
    d_sent,       \* the documents the chat received, in order
    d_inflight,   \* the parts whose answer_document call is awaited
    d_error       \* the exception that left _send_submission_file, "none" if none

sendVars ==
    << d_pc, d_file, d_chunk_size, d_total, d_width, d_idx, d_pos, d_chunk, d_tries,
       d_wait, d_sent, d_inflight, d_error >>

\* Where the artifacts are kept (routers/submissions_user.py, submissions_admin.py,
\* services/auto_judge.py)
VARIABLES
    team_of,      \* the team each uploading user is an active member of
    team_slug,    \* Team.slug of each team
    p_pc,         \* where the upload of each user stands
    p_plan,       \* the SubmissionPlan of each upload
    disk,         \* the files that exist: resolved path and whose bytes they hold
    rows,         \* the Submission table with file_path, in the order of creation
    reads         \* the files that an evaluation opened or a download delivered

pathVars == << team_of, team_slug, p_pc, p_plan, disk, rows, reads >>

vars == << judgeVars, cacheVars, notifyVars, xferVars, sendVars, pathVars >>

(***************************************************************************)
(* Submission records and evaluation outcomes.                             *)
(* A value is a fixed-point number counted in ticks.  The column           *)
(* Submission.value is Numeric(10, 4): it keeps BonusSteps steps per unit, *)
(* and a float distinguishes RoundSteps values within each such step, so   *)
(* one unit is BonusSteps * RoundSteps ticks.                              *)
(***************************************************************************)
NoValue == -1
ValueUnit == BonusSteps * RoundSteps
NoLock == 0
Statuses == {"pending", "accepted", "rejected", "error"}
NoStatus == "none"
NoSub == [status |-> "absent", value |-> NoValue, title |-> "absent"]
Titles == {"t1", "t2"}
NoTitle == "none"

\* the text of an outcome's message; the score message carries "k/n"
Plain(text) == [text |-> text, correct |-> NoValue, total |-> NoValue]
ScoreMessage(k, n) == [text |-> "correct_of_total", correct |-> k, total |-> n]

NoResult == [status |-> "noresult", value |-> NoValue, message |-> Plain("none"), success |-> FALSE]

\* AutoJudgeResult(status, value, message, success)
AutoJudgeResult(st, v, m, ok) == [status |-> st, value |-> v, message |-> m, success |-> ok]

\* AutoJudgeResult(success=False): every other field keeps its default
FailedResult == AutoJudgeResult(NoStatus, NoValue, Plain("none"), FALSE)

\* SubmissionUpdate(id, value, status, title): absent fields are None
SubmissionUpdate(id, v, st, t) == [id |-> id, value |-> v, status |-> st, title |-> t]

\* Submission.value is Numeric(10, 4): the value written is rounded to the
\* column's scale (half away from zero) and read back rounded
StoredValue(v) == RoundSteps * ((2 * v + RoundSteps) \div (2 * RoundSteps))

\* Database.update_submission: a partial update, only the provided fields are written
DbUpdateSubmission(rec, upd) ==
    [status |-> IF upd.status # NoStatus THEN upd.status ELSE rec.status,
     value  |-> IF upd.value # NoValue THEN StoredValue(upd.value) ELSE rec.value,
     title  |-> IF upd.title # NoTitle THEN upd.title ELSE rec.title]

\* Database.create_submission with the SubmissionCreate defaults
NewSubmission(t) == [status |-> "pending", value |-> NoValue, title |-> t]

(***************************************************************************)
(* The first_track scorer (auto_judge_first_track.py).                     *)
(* An archive is a zip validity flag and the set of file paths it unpacks  *)
(* to; a path is a sequence of names.                                      *)
(***************************************************************************)
Archives ==
    { [valid |-> TRUE,  files |-> {<<"main.py">>}],
      [valid |-> TRUE,  files |-> {<<"main.py">>, <<"x.txt">>}],
      [valid |-> TRUE,  files |-> {<<"x.txt">>}],
      [valid |-> TRUE,  files |-> {<<"d", "main.py">>}],
      [valid |-> TRUE,  files |-> {<<"d", "main.py">>, <<"__MACOSX", "j">>}],
      [valid |-> TRUE,  files |-> {<<"d", "main.py">>, <<"x.txt">>}],
      [valid |-> TRUE,  files |-> {<<"d", "e", "main.py">>}],
      [valid |-> TRUE,  files |-> {<<"d", "x.txt">>}],
      [valid |-> TRUE,  files |-> {<<"d", "d", "main.py">>}],
      [valid |-> FALSE, files |-> {}] }

TopEntries(files) == { p[1] : p \in files }
IsDir(files, name) == \E p \in files : Len(p) > 1 /\ p[1] = name
IsMain(p) == p[Len(p)] = "main.py"

\* lines 140-141: the top-level entries other than __MACOSX, and the single-folder test
Entries(files) == TopEntries(files) \ {"__MACOSX"}
Wrapped(files) ==
    /\ Cardinality(Entries(files)) = 1
    /\ \A r \in Entries(files) : IsDir(files, r)

\* Variant that moves every file of the archive to the root
FlattenAll(files) == [raised |-> FALSE, files |-> { << p[Len(p)] >> : p \in files }]

\* lines 142-154: the children of the single folder are moved to the root,
\* replacing what is already there; "raised" when a child carries the folder's
\* own name (the folder is removed before the child is moved out of it)
Flatten(files) ==
    LET root == CHOOSE r \in Entries(files) : TRUE
        inner == { Tail(p) : p \in { q \in files : q[1] = root } }
        names == TopEntries(inner)
    IN  IF root \in names
        THEN [raised |-> TRUE, files |-> {}]
        ELSE [raised |-> FALSE,
              files |-> inner \cup { p \in files : p[1] # root /\ p[1] \notin names }]

\* lines 160-164: rglob walks top-down, so a main.py at the root is the first found
MainAtRoot(files) == <<"main.py">> \in files

\* _prepare_workspace: "ok" with the workspace, or the FileNotFoundError raised
PrepareWorkspace(zip) ==
    LET flat == IF Wrapped(zip.files) THEN Flatten(zip.files)
                ELSE [raised |-> FALSE, files |-> zip.files]
    IN  IF ~zip.valid THEN [outcome |-> "bad_zip", files |-> {}]
        ELSE IF flat.raised THEN [outcome |-> "not_found", files |-> {}]
        ELSE IF ~(\E p \in flat.files : IsMain(p))
             THEN [outcome |-> "not_found", files |-> flat.files]
        ELSE IF ~MainAtRoot(flat.files)
             THEN [outcome |-> "not_found", files |-> flat.files]
        ELSE [outcome |-> "ok", files |-> flat.files \cup {<<"input.csv">>}]

\* What one container run can end as: subprocess.run's three endings, and for
\* exit code 0 whether output.csv exists, is readable, how many rows are right,
\* whether input.csv is still there, and the random bonus drawn.
RunOutcomes ==
    { [kind |-> k, output |-> "absent", input_kept |-> TRUE, correct |-> 0, bonus |-> 0] :
        k \in {"no_docker", "timeout", "nonzero", "exit0"} }
    \cup { [kind |-> "exit0", output |-> o, input_kept |-> i, correct |-> 0, bonus |-> 0] :
        o \in {"malformed", "rows"}, i \in {FALSE} }
    \cup { [kind |-> "exit0", output |-> "malformed", input_kept |-> TRUE, correct |-> 0, bonus |-> 0] }
    \cup { [kind |-> "exit0", output |-> "rows", input_kept |-> TRUE, correct |-> c, bonus |-> b] :
        c \in 0..MaxRows, b \in 0..(ValueUnit - 1) }

\* Variant of the error result that reports success
ErrorResultSucceeds(m) == AutoJudgeResult("error", NoValue, Plain(m), TRUE)

\* the error results of _evaluate_sync and _run_container: status error,
\* no value, success False
ErrorResult(m) == AutoJudgeResult("error", NoValue, Plain(m), FALSE)

\* Variant that takes every ending of the run but a timeout as a success
RunContainerLenient(r) ==
    IF r.kind = "timeout" THEN [success |-> FALSE, result |-> ErrorResult("timeout")]
    ELSE [success |-> TRUE, result |-> AutoJudgeResult("accepted", 0, Plain("none"), TRUE)]

\* _run_container: success, or the error result of the failed run
RunContainer(r) ==
    IF r.kind = "no_docker" THEN [success |-> FALSE, result |-> ErrorResult("no_docker")]
    ELSE IF r.kind = "timeout" THEN [success |-> FALSE, result |-> ErrorResult("timeout")]
    ELSE IF r.kind = "nonzero" THEN [success |-> FALSE, result |-> ErrorResult("exit_nonzero")]
    ELSE [success |-> TRUE, result |-> AutoJudgeResult("accepted", 0, Plain("none"), TRUE)]

\* _calculate_score: value = correct + random bonus in [0, 1), in ticks, and
\* the message "Correct: k/n, bonus=..."
CalculateScore(r) ==
    [correct |-> r.correct, total |-> MaxRows,
     value |-> r.correct * ValueUnit + r.bonus,
     message |-> ScoreMessage(r.correct, MaxRows)]

\* Variant that takes a missing output.csv as an error
AfterContainerStrict(r) ==
    LET exec == RunContainer(r)
    IN  IF ~exec.success THEN exec.result
        ELSE IF r.output = "absent" THEN ErrorResult("output_missing")
        ELSE IF ~r.input_kept THEN ErrorResult("evaluation_failed")
        ELSE IF r.output = "malformed" THEN ErrorResult("evaluation_failed")
        ELSE AutoJudgeResult("accepted", CalculateScore(r).value, CalculateScore(r).message,
                             TRUE)

\* _evaluate_sync after a successful _prepare_workspace, wrapped by the
\* except clause of _score_submission (lines 67-74)
AfterContainer(r) ==
    LET exec == RunContainer(r)
    IN  IF ~exec.success THEN exec.result
        ELSE IF r.output = "absent"
             THEN AutoJudgeResult("accepted", 0, Plain("output_missing"), TRUE)
        ELSE IF ~r.input_kept THEN ErrorResult("evaluation_failed")
        ELSE IF r.output = "malformed" THEN ErrorResult("evaluation_failed")
        ELSE AutoJudgeResult("accepted", CalculateScore(r).value, CalculateScore(r).message,
                             TRUE)

\* _evaluate_sync up to the container launch: the result when no container runs
BeforeContainer(zip) ==
    LET prep == PrepareWorkspace(zip)
    IN  IF prep.outcome = "bad_zip" THEN ErrorResult("evaluation_failed")
        ELSE IF prep.outcome = "not_found" THEN ErrorResult("entry_point_missing")
        ELSE NoResult

(***************************************************************************)
(* SubmissionService.update_submission under its notification wrapper     *)
(* (submission_notifications.py) and the audit wrapper (audit_log.py).     *)
(* What the collaborators of one update can do is one fault at a time.     *)
(***************************************************************************)
NotifyFaults ==
    { "none", "user_none", "user_raises", "no_tg_id", "localizer_raises",
      "forbidden", "bad_request", "send_raises" }
UpdateFaults ==
    NotifyFaults \cup { "snapshot_fails", "team_user_missing", "db_error", "audit_error" }

\* Variant of the comparison with the title test inverted
UnchangedTitleInverted(previous, updated) ==
    /\ previous.status = updated.status
    /\ previous.value = updated.value
    /\ previous.title # updated.title

\* _handle_notification lines 90-97: nothing meaningful changed
Unchanged(previous, updated) ==
    /\ previous.status = updated.status
    /\ previous.value = updated.value
    /\ previous.title = updated.title

\* Variant of the text that always uses the plain status line
NotificationTextPlain(previous, updated) ==
    [title |-> updated.title,
     status_old |-> NoStatus,
     status_new |-> updated.status,
     value_changed |-> previous # NoSub /\ previous.value # updated.value,
     value_old |-> IF previous # NoSub /\ previous.value # updated.value
                   THEN previous.value ELSE NoValue,
     value_new |-> updated.value]

\* _handle_notification lines 116-137: the text of the message
NotificationText(previous, updated) ==
    [title |-> updated.title,
     status_old |-> IF previous # NoSub /\ previous.status # updated.status
                    THEN previous.status ELSE NoStatus,
     status_new |-> updated.status,
     value_changed |-> previous # NoSub /\ previous.value # updated.value,
     value_old |-> IF previous # NoSub /\ previous.value # updated.value
                   THEN previous.value ELSE NoValue,
     value_new |-> updated.value]

\* _handle_notification with _send_message: the messages handed to the bot
\* (attempts: the transport's answer is in "delivered") and whether the step raised
HandleNotification(previous, updated, fault, bound) ==
    IF previous # NoSub /\ Unchanged(previous, updated)
        THEN [attempts |-> <<>>, delivered |-> 0, raised |-> FALSE]
    ELSE IF fault = "user_raises"
        THEN [attempts |-> <<>>, delivered |-> 0, raised |-> TRUE]
    ELSE IF fault \in {"user_none", "no_tg_id"}
        THEN [attempts |-> <<>>, delivered |-> 0, raised |-> FALSE]
    ELSE IF fault = "localizer_raises"
        THEN [attempts |-> <<>>, delivered |-> 0, raised |-> TRUE]
    ELSE IF ~bound
        THEN [attempts |-> <<>>, delivered |-> 0, raised |-> FALSE]
    ELSE IF fault \in {"forbidden", "bad_request"}
        THEN [attempts |-> <<NotificationText(previous, updated)>>, delivered |-> 0,
              raised |-> FALSE]
    ELSE IF fault = "send_raises"
        THEN [attempts |-> <<NotificationText(previous, updated)>>, delivered |-> 0,
              raised |-> TRUE]
    ELSE [attempts |-> <<NotificationText(previous, updated)>>, delivered |-> 1,
          raised |-> FALSE]

\* Variant of the wrapper without the try/except around the notify step
NotifyWrapperReraise(previous, updated, fault, bound) ==
    HandleNotification(previous, updated, fault, bound)

\* notify_update._wrapper lines 46-59: an exception of the notify step is swallowed
NotifyWrapper(previous, updated, fault, bound) ==
    [HandleNotification(previous, updated, fault, bound) EXCEPT !.raised = FALSE]

\* The whole call of update_submission on an existing record, as one step:
\* snapshot, update, notification, audit entry.
UpdateSubmissionCall(rec, upd, fault, bound) ==
    LET previous == IF fault = "snapshot_fails" THEN NoSub ELSE rec
        updated == DbUpdateSubmission(rec, upd)
        note == NotifyWrapper(previous, updated, fault, bound)
    IN  IF fault \in {"team_user_missing", "db_error"}
        THEN [raised |-> TRUE, rec |-> rec, attempts |-> <<>>, delivered |-> 0]
        ELSE [raised |-> (fault = "audit_error") \/ note.raised, rec |-> updated,
              attempts |-> note.attempts, delivered |-> note.delivered]

(***************************************************************************)
(* ScorerRegistry: slugs are sequences of characters; "a" stands for the   *)
(* letters of first_track, "A" for their capitals.                         *)
(***************************************************************************)
Lower(c) == IF c = "A" THEN "a" ELSE IF c = "B" THEN "b" ELSE c

RECURSIVE LStrip(_)
LStrip(w) == IF w # <<>> /\ Head(w) = " " THEN LStrip(Tail(w)) ELSE w

RECURSIVE RStrip(_)
RStrip(w) ==
    IF w # <<>> /\ w[Len(w)] = " " THEN RStrip(SubSeq(w, 1, Len(w) - 1)) ELSE w

\* track_slug.strip().lower()
NormalizeSlug(w) == [i \in 1..Len(RStrip(LStrip(w))) |-> Lower(RStrip(LStrip(w))[i])]

FirstTrack == <<"a">>
TrackSlugs == { <<"a">>, <<" ", "A">>, <<"A", " ">>, <<"b">>, <<>> }

\* Variant of the lookup that takes any registered scorer for the track
HasScorerAny(registry, slug) == DOMAIN registry # {}

\* evaluate_submission lines 108-109: whether a scorer is registered for the track
HasScorer(registry, slug) == NormalizeSlug(slug) \in DOMAIN registry

NoScorer == "absent"
NoScorers == [k \in {} |-> NoScorer]

\* register lines 64-68: self._scorers[track_slug.strip().lower()] = func
Register(registry, slug, func) ==
    [k \in DOMAIN registry \cup { NormalizeSlug(slug) } |->
        IF k = NormalizeSlug(slug) THEN func ELSE registry[k]]

\* Variant of the lookup that takes the slug as it is
ResolveRaw(registry, slug) ==
    IF slug \in DOMAIN registry THEN registry[slug] ELSE NoScorer

\* evaluate_submission lines 108-109: self._scorers.get((track.slug or "").strip().lower())
Resolve(registry, slug) ==
    IF NormalizeSlug(slug) \in DOMAIN registry THEN registry[NormalizeSlug(slug)] ELSE NoScorer

\* auto_judge_first_track.py line 305: @auto_judge.register("first_track"), the
\* only registration of the program
AtStartUp ==
    /\ registered = << [slug |-> FirstTrack, scorer |-> "first_track"] >>
    /\ scorers = Register(NoScorers, FirstTrack, "first_track")

(***************************************************************************)
(* The chunked upload (routers/submissions_user.py).  A part file is named *)
(* by its number; its bytes are a one-element sequence holding the number, *)
(* so that an assembled artifact is the concatenation of byte sequences.   *)
(***************************************************************************)
MinParts == 2
MaxParts == 20
\* Variant of the first numbers that also takes 2 as a base
FirstPartNumbersWithTwo == {0, 1, 2}

\* line 375: if part_number not in {0, 1}
FirstPartNumbers == {0, 1}
MaxPartNo == MaxParts + 1
PartNos == 0..MaxPartNo

NoPart == -1
NoPlan == 0
NoFile == [exists |-> FALSE, bytes |-> <<>>]
PartBytes(n) == <<n>>
WholeArchive == <<MaxPartNo + 1>>

\* the FSM data after state.clear(), and after show_multipart_hint's update_data
ClearedData ==
    [expected |-> 0, received |-> 0, parts |-> <<>>, plan |-> NoPlan,
     tmp_dir |-> FALSE, first_part |-> NoPart]
NoLocals ==
    [expected |-> 0, received |-> 0, parts |-> <<>>, plan |-> NoPlan, copied |-> 0,
     base_number_raw |-> NoPart]

Answer(kind) == [kind |-> kind, expected |-> NoPart, got |-> NoPart]
WrongOrder(expected, got) == [kind |-> "wrong_order", expected |-> expected, got |-> got]
NoWord == ""
NoEvent == [kind |-> "none", n |-> NoPart, word |-> NoWord]

PartDocs(numbers) == { [kind |-> "part", n |-> n, word |-> NoWord] : n \in numbers }
OtherDocs ==
    { [kind |-> "zip", n |-> NoPart, word |-> NoWord],
      [kind |-> "other", n |-> NoPart, word |-> NoWord] }

\* The file names a document can carry, each with its pieces: a stem, the
\* extensions as written, and the digits that end it
FileNames ==
    { "x.zip", "X.ZIP", ".zip", "x.txt", "x.zip.part1", "x.ZIP.PART2", "x.zip.part",
      ".zip.part1", "x.part1", "" }
Pieces(name) ==
    CASE name = "x.zip" -> << "x", ".zip" >>
      [] name = "X.ZIP" -> << "X", ".ZIP" >>
      [] name = ".zip" -> << ".zip" >>
      [] name = "x.txt" -> << "x", ".txt" >>
      [] name = "x.zip.part1" -> << "x", ".zip", ".part", "1" >>
      [] name = "x.ZIP.PART2" -> << "x", ".ZIP", ".PART", "2" >>
      [] name = "x.zip.part" -> << "x", ".zip", ".part" >>
      [] name = ".zip.part1" -> << ".zip", ".part", "1" >>
      [] name = "x.part1" -> << "x", ".part", "1" >>
      [] OTHER -> <<>>
IsDigits(x) == x \in {"0", "1", "2", "3"}
IntOf(x) == CASE x = "0" -> 0 [] x = "1" -> 1 [] x = "2" -> 2 [] x = "3" -> 3
LowerPiece(x) ==
    IF x = ".ZIP" THEN ".zip" ELSE IF x = ".PART" THEN ".part"
    ELSE IF x = "X" THEN "x" ELSE x

\* Variant of the name test that takes every name
IsZipFileAny(name) == TRUE

\* _is_zip_file lines 581-582: (filename or "").lower().endswith(".zip")
IsZipFile(name) ==
    LET w == Pieces(name) IN w # <<>> /\ LowerPiece(w[Len(w)]) = ".zip"

\* _is_zip_part lines 585-588: ZIP_PART_PATTERN r".+\.zip\.part\d+$", IGNORECASE
IsZipPart(name) ==
    LET w == Pieces(name)
    IN  /\ Len(w) >= 4
        /\ IsDigits(w[Len(w)])
        /\ LowerPiece(w[Len(w) - 1]) = ".part"
        /\ LowerPiece(w[Len(w) - 2]) = ".zip"

\* _extract_part_number lines 569-578: the digits after the last ".part"
ExtractPartNumber(name) ==
    LET w == Pieces(name)
    IN  IF Len(w) >= 2 /\ IsDigits(w[Len(w)]) /\ LowerPiece(w[Len(w) - 1]) = ".part"
        THEN IntOf(w[Len(w)]) ELSE NoPart

\* the document as the handlers see it: receive_submission_document lines
\* 171-177 and _handle_multipart_part lines 359-366
DocOf(name) ==
    [kind |-> IF IsZipPart(name) /\ ExtractPartNumber(name) # NoPart THEN "part"
              ELSE IF IsZipFile(name) THEN "zip" ELSE "other",
     n |-> IF IsZipPart(name) THEN ExtractPartNumber(name) ELSE NoPart,
     word |-> name]
NamedDocs == { DocOf(name) : name \in FileNames }

\* the texts a user can send while the total is awaited, by their form: the
\* words cancel and stop (in any case, with blanks around), a decimal integer
\* (bare, or with blanks or a sign around it), a number with a fraction, the
\* label of the Back button, anything else
CancelWords == { "cancel", "stop", " Cancel " }
IntForms == { "int", " +int " }
TotalTexts ==
    { [word |-> w, n |-> 0] : w \in CancelWords \cup {"junk", "back_button"} }
    \cup { [word |-> w, n |-> t] : w \in IntForms \cup {"int.0"},
                                  t \in (MinParts - 1)..(MaxParts + 1) }

\* multipart_set_total lines 309-310: text.strip().lower() in {"cancel", "stop"}
IsCancel(text) == text.word \in CancelWords

\* lines 315-319: int(text), or the ValueError
ParseTotal(text) ==
    IF text.word \in IntForms THEN [ok |-> TRUE, total |-> text.n]
    ELSE [ok |-> FALSE, total |-> 0]

\* Variant of the range test that lets a total of one part through
ValidTotalFromOne(total) == ~(total < 1 \/ total > MaxParts)

\* line 321: if total < 2 or total > 20, the total is refused
ValidTotal(total) == ~(total < MinParts \/ total > MaxParts)

\* Variant of the base number that takes the number of every part as the base
BaseNumberLatest(first_part, n) == n

\* _handle_multipart_part lines 368-385: the base is the stored first part, or
\* the number of this part when none is stored
BaseNumber(first_part, n) == IF first_part = NoPart THEN n ELSE first_part

\* Variant of the expected number that counts from 1 whatever the base is
ExpectedPartNumberFromOne(base, received) == received + 1

\* line 387: expected_part_number = base_number + received
ExpectedPartNumber(base, received) == base + received

\* Variant of the append that puts the new part first
AppendPartFirst(parts, path) == <<path>> \o parts

\* lines 471-472: parts = list(data.get("multipart_parts") or []); parts.append(path)
AppendPart(parts, path) == Append(parts, path)

\* _assemble_and_submit_parts lines 664-668: every part copied into dest, in list order
RECURSIVE Concatenate(_, _)
Concatenate(parts, files) ==
    IF parts = <<>> THEN <<>>
    ELSE files[Head(parts)].bytes \o Concatenate(Tail(parts), files)

AllPartsExist(parts, files) == \A i \in 1..Len(parts) : files[parts[i]].exists

\* What the handler of one document decides before any download starts:
\* the new FSM state and data, the answer, and where the handler goes.
Decision(f, u, d, r, p, l, v) ==
    [fsm |-> f, ui |-> u, data |-> d, reply |-> r, pc |-> p, locals |-> l, verdict |-> v]

\* _handle_multipart_part lines 350-429, with `d` the data read at line 350
HandleMultipartPart(d, doc, plan, seq) ==
    LET base == BaseNumber(d.first_part, doc.n)
        d1 == [d EXCEPT !.first_part = base]
        d2 == [d1 EXCEPT !.plan = IF d.plan = NoPlan THEN seq ELSE d.plan,
                         !.tmp_dir = TRUE]
    IN  IF d.expected = 0
        THEN Decision("none", "submit", ClearedData, Answer("missing_setup"), "idle",
                      NoLocals, "missing_setup")
        ELSE IF doc.kind # "part"
        THEN Decision("collecting", "submit", d, Answer("not_zip"), "idle", NoLocals,
                      "not_zip")
        ELSE IF d.first_part = NoPart /\ doc.n \notin FirstPartNumbers
        THEN Decision("collecting", "submit", d, WrongOrder(NoPart, doc.n), "idle",
                      NoLocals, "wrong_order")
        ELSE IF doc.n # ExpectedPartNumber(base, d.received)
        THEN Decision("collecting", "submit", d1,
                      WrongOrder(ExpectedPartNumber(base, d.received), doc.n), "idle",
                      NoLocals, "wrong_order")
        ELSE IF d.plan = NoPlan /\ plan # "ok"
        THEN Decision("none", "home", ClearedData, Answer("plan_refused"), "idle",
                      NoLocals, "plan_refused")
        ELSE Decision("collecting", "submit", d2, Answer("downloading"), "download",
                      [expected |-> d.expected, received |-> d.received,
                       parts |-> d.parts, plan |-> d2.plan, copied |-> 0,
                       base_number_raw |-> d.first_part], "download")

\* receive_submission_document lines 164-186: the routing by FSM state and file name
RouteDocument(state_name, d, doc, plan, seq) ==
    IF state_name = "collecting" THEN HandleMultipartPart(d, doc, plan, seq)
    ELSE IF state_name = "waiting_total"
    THEN Decision(state_name, "submit", d, Answer("need_total"), "idle", NoLocals, "need_total")
    ELSE IF doc.kind = "part"
    THEN Decision(state_name, "submit", d, Answer("not_started"), "idle", NoLocals,
                  "not_started")
    ELSE IF doc.kind # "zip"
    THEN Decision(state_name, "submit", d, Answer("not_zip"), "idle", NoLocals, "not_zip")
    ELSE IF plan # "ok"
    THEN Decision("none", "home", ClearedData, Answer("plan_refused"), "idle", NoLocals,
                  "plan_refused")
    ELSE Decision(state_name, "submit", d, Answer("downloading"), "single",
                  [NoLocals EXCEPT !.plan = seq], "download")

\* no upload in progress: the chat is at the home menu
TransferIdle ==
    /\ ui = "home"
    /\ fsm = "none"
    /\ data = ClearedData
    /\ tmp_files = [n \in PartNos |-> NoFile]
    /\ workspace = FALSE
    /\ dest = NoFile
    /\ submitted = <<>>
    /\ reply = Answer("none")
    /\ event = NoEvent
    /\ h_pc = [h \in Handlers |-> "idle"]
    /\ h_doc = [h \in Handlers |-> NoEvent]
    /\ h_data = [h \in Handlers |-> NoLocals]
    /\ assemblies = 0
    /\ declared = 0
    /\ first_sent = NoPart
    /\ sent = 0
    /\ clean = FALSE
    /\ trace = <<>>

(***************************************************************************)
(* Artifact paths.  A text is a sequence of characters, with Sep for "/"   *)
(* and Up for ".."; a path is absolute or not and has components, each a   *)
(* text without Sep.  File contents are named by who wrote them.           *)
(***************************************************************************)
Sep == "/"
Up == ".."
Uploaders == {1, 2}
Teams == {"t1", "t2"}
Name(w) == << w >>

RECURSIVE Components(_, _)
Components(w, cur) ==
    IF w = <<>> THEN (IF cur = <<>> THEN <<>> ELSE << cur >>)
    ELSE IF Head(w) = Sep
    THEN (IF cur = <<>> THEN <<>> ELSE << cur >>) \o Components(Tail(w), <<>>)
    ELSE Components(Tail(w), Append(cur, Head(w)))

\* pathlib.Path(text): absolute when the text starts with the separator
PathOf(w) == [abs |-> (w # <<>> /\ Head(w) = Sep), parts |-> Components(w, <<>>)]

\* pathlib's base / rel: an absolute right operand replaces the left one
JoinPath(base, rel) ==
    IF rel.abs THEN rel ELSE [abs |-> base.abs, parts |-> base.parts \o rel.parts]

RECURSIVE Normal(_, _)
Normal(parts, acc) ==
    IF parts = <<>> THEN acc
    ELSE IF Head(parts) = << Up >>
    THEN Normal(Tail(parts), IF acc = <<>> THEN <<>> ELSE SubSeq(acc, 1, Len(acc) - 1))
    ELSE Normal(Tail(parts), Append(acc, Head(parts)))

\* Path.resolve() of an absolute path: the ".." components are followed
ResolvePath(p) == [abs |-> TRUE, parts |-> Normal(p.parts, <<>>)]

\* Path.relative_to(root) succeeds: root is a prefix of the path, component
\* by component, without following ".."
RelativeTo(p, root) ==
    /\ p.abs = root.abs
    /\ Len(root.parts) <= Len(p.parts)
    /\ \A i \in 1..Len(root.parts) : p.parts[i] = root.parts[i]

\* Path(__file__).resolve().parents[2] and the directories under it
BaseDir == [abs |-> TRUE, parts |-> << Name("app") >>]
DataRoot == JoinPath(BaseDir, PathOf(Name("data")))
SubmissionsRoot == JoinPath(DataRoot, PathOf(Name("submissions")))

\* Variant of the slug rule that lets every text through
ValidSlugAny(w) == TRUE

\* teams.py _valid_slug: re.fullmatch(r"[a-z0-9_]{3,}", value); "a" stands for
\* the letters and digits
ValidSlug(w) == Len(w) >= 3 /\ \A i \in 1..Len(w) : w[i] \in {"a", "b", "_"}

\* the texts an administrator may send as a team's slug
SlugTexts ==
    { << "a", "a", "a" >>, << " ", "A", "a", "_", " " >>, << "a", "a" >>, << "a", " ", "a" >>,
      << Up, Sep, Up, Sep, Up, Sep, "a" >>, << Up, Sep, "a", "a" >>, << Sep, "a", "a", "a" >>,
      << "a", Sep, "a" >>, <<>> }

Numeral(n) == << "0", "1", "2", "3", "4", "5", "6", "7", "8", "9" >>[n + 1]

\* _prepare_submission_plan lines 633-634
SafeSlug(slug, team) ==
    LET raw == IF slug = <<>> THEN Name(team) ELSE slug
        stripped == RStrip(LStrip(raw))
        safe == [i \in 1..Len(stripped) |-> IF stripped[i] = " " THEN "_" ELSE stripped[i]]
    IN  IF safe = <<>> THEN Name(team) ELSE safe

\* _prepare_submission_plan lines 630-651 and _handle_multipart_part line 417
PrepareSubmissionPlan(team, slug, existing_count) ==
    LET safe_slug == SafeSlug(slug, team)
        sequence_number == existing_count + 1
        filename == safe_slug \o << "_", Numeral(sequence_number), ".zip" >>
        team_dir == JoinPath(SubmissionsRoot, PathOf(Name(team)))
        dest_path == JoinPath(team_dir, PathOf(filename))
        tmp_dir == JoinPath(JoinPath(JoinPath(SubmissionsRoot, PathOf(Name("tmp"))),
                                     PathOf(safe_slug)),
                            PathOf(Name(Numeral(sequence_number))))
    IN  [ok |-> RelativeTo(dest_path, DataRoot),
         team |-> team,
         sequence_number |-> sequence_number,
         dest_path |-> dest_path,
         relative_path |->
             [abs |-> FALSE,
              parts |-> IF RelativeTo(dest_path, DataRoot)
                        THEN SubSeq(dest_path.parts, Len(DataRoot.parts) + 1,
                                    Len(dest_path.parts))
                        ELSE <<>>],
         tmp_dir |-> tmp_dir]

NoPlanYet ==
    [ok |-> FALSE, team |-> "", sequence_number |-> 0, dest_path |-> BaseDir,
     relative_path |-> [abs |-> FALSE, parts |-> <<>>], tmp_dir |-> BaseDir]

\* Variant of the check that takes the joined path without resolving it
SubmissionFilePathLexical(file_path) ==
    LET path == JoinPath(DataRoot, file_path)
    IN  [ok |-> RelativeTo(path, DataRoot), path |-> ResolvePath(path)]

\* submissions_admin.py _submission_file_path lines 287-293
SubmissionFilePath(file_path) ==
    LET path == ResolvePath(JoinPath(DataRoot, file_path))
    IN  [ok |-> RelativeTo(path, DataRoot), path |-> path]

Exists(path, files) == \E f \in files : f.path = ResolvePath(path)

\* _auto_from_submission lines 178-198: the file the evaluation will open
AutoFilePath(file_path, files) ==
    LET candidates ==
            (IF file_path.parts = <<>> \/ file_path.parts[1] # Name("data")
             THEN << JoinPath(DataRoot, file_path) >> ELSE <<>>)
            \o << JoinPath(BaseDir, file_path) >>
        tried == IF file_path.abs THEN << file_path >> ELSE candidates
        found == { i \in 1..Len(tried) : Exists(tried[i], files) }
    IN  IF found = {} THEN [ok |-> FALSE, path |-> BaseDir]
        ELSE [ok |-> TRUE,
              path |-> ResolvePath(tried[CHOOSE i \in found : \A j \in found : i <= j])]

\* SubmissionService.count_submissions: the records of the team
CountSubmissions(team, table) == Cardinality({ i \in 1..Len(table) : table[i].team = team })

WriteFile(files, path, by) ==
    { f \in files : f.path # ResolvePath(path) } \cup { [path |-> ResolvePath(path), by |-> by] }
RemoveFile(files, path) == { f \in files : f.path # ResolvePath(path) }
Content(files, path) == (CHOOSE f \in files : f.path = ResolvePath(path)).by

\* files of the host that are not artifacts: one beside the data directory,
\* one in the data directory but not under submissions, one elsewhere
OtherFiles ==
    { [path |-> [abs |-> TRUE, parts |-> << Name("app"), Name("x.zip") >>], by |-> 0],
      [path |-> [abs |-> TRUE, parts |-> << Name("app"), Name("data"), Name("x.zip") >>], by |-> 0],
      [path |-> [abs |-> TRUE, parts |-> << Name("etc"), Name("x.zip") >>], by |-> 0] }

\* the file_path values a caller of create_submission may pass
PayloadPaths ==
    { PathOf(<< "x.zip" >>), PathOf(<< Up, Sep, "x.zip" >>),
      PathOf(<< "submissions", Sep, Up, Sep, Up, Sep, "x.zip" >>),
      PathOf(<< Sep, "etc", Sep, "x.zip" >>), PathOf(<< "data", Sep, "x.zip" >>),
      PathOf(<< "submissions", Sep, "none.zip" >>) }

PathIdle ==
    /\ team_of = [c \in Uploaders |-> "t1"]
    /\ team_slug = [t \in Teams |-> << "a", "a", "a" >>]
    /\ p_pc = [c \in Uploaders |-> "off"]
    /\ p_plan = [c \in Uploaders |-> NoPlanYet]
    /\ disk = {}
    /\ rows = <<>>
    /\ reads = {}

(***************************************************************************)
(* The result cache used directly (AutoJudgeService._results).             *)
(***************************************************************************)
NoOp == [op |-> "none", id |-> 0, ret |-> NoResult, arg |-> NoResult]
CacheOutcomes ==
    { FailedResult, ErrorResult("timeout"), AutoJudgeResult("accepted", 1, Plain("none"), TRUE) }

\* Variant of the store that keys every outcome by one shared key
StoreResultShared(cache, id, outcome) == [cache EXCEPT ![1] = outcome]

\* ResultCache: _results[id] = result
StoreResult(cache, id, outcome) == [cache EXCEPT ![id] = outcome]

\* Variant of pop_result that reads with _results.get(id) and removes nothing
PopResultKeep(cache, id) == [ret |-> cache[id], cache |-> cache]

\* ResultCache: _results.pop(id, None)
PopResult(cache, id) == [ret |-> cache[id], cache |-> [cache EXCEPT ![id] = NoResult]]

\* no delivery is under way
NoDelivery == [exists |-> FALSE, bytes |-> <<>>]
SendIdle ==
    /\ d_pc = "idle"
    /\ d_file = NoDelivery
    /\ d_chunk_size = 0
    /\ d_total = 0
    /\ d_width = 0
    /\ d_idx = 0
    /\ d_pos = 0
    /\ d_chunk = <<>>
    /\ d_tries = <<>>
    /\ d_wait = 0
    /\ d_sent = <<>>
    /\ d_inflight = {}
    /\ d_error = "none"

CacheIdle ==
    /\ last_op = NoOp
    /\ prev_op = NoOp
    /\ cache_was = [i \in SubIds |-> NoResult]

NoEnv == [fault |-> "unset", bound |-> FALSE]
NoReturn == [state |-> "none", by |-> "none", rec |-> NoSub]
NoPayload == SubmissionUpdate(0, NoValue, NoStatus, NoTitle)

NotifyIdle ==
    /\ u_pc = "off"
    /\ u_payload = NoPayload
    /\ u_prev = NoSub
    /\ u_updated = NoSub
    /\ u_sent = <<>>
    /\ u_env = NoEnv
    /\ u_ret = NoReturn
    /\ others_left = 0

(***************************************************************************)
(* The evaluation coordinator (auto_judge.py).                             *)
(***************************************************************************)
NoArchive == [valid |-> FALSE, files |-> {<<"unset">>}]
NoRun == [kind |-> "none", output |-> "absent", input_kept |-> TRUE, correct |-> 0, bonus |-> 0]

\* Variant of _get_judge_lock that constructs a lock on every call
GetJudgeLockFresh == [lock |-> locks_made + 1, made |-> locks_made + 1]

\* _get_judge_lock: the lock object to use, created on first use
GetJudgeLock ==
    IF judge_lock = NoLock
    THEN [lock |-> locks_made + 1, made |-> locks_made + 1]
    ELSE [lock |-> judge_lock, made |-> locks_made]

\* The state after start-up (run_bot.main): the first_track scorer registered,
\* the notifier bound, no lock made yet; `active` are the flows that will upload.
InitCoordinator(active) ==
    /\ pc = [f \in Flows |-> IF f \in active THEN "start" ELSE "off"]
    /\ subs = [i \in SubIds |-> NoSub]
    /\ flow_sub = [f \in Flows |-> 0]
    /\ archive = [f \in Flows |-> NoArchive]
    /\ track = [f \in Flows |-> <<>>]
    /\ context = [f \in Flows |-> "none"]
    /\ run = [f \in Flows |-> NoRun]
    /\ result = [f \in Flows |-> NoResult]
    /\ scorer = [f \in Flows |-> NoScorer]
    /\ results = [i \in SubIds |-> NoResult]
    /\ judge_lock = NoLock
    /\ locks_made = 0
    /\ my_lock = [f \in Flows |-> NoLock]
    /\ locked = [l \in LockIds |-> FALSE]
    /\ waiters = [l \in LockIds |-> <<>>]
    /\ launched = [f \in Flows |-> FALSE]
    /\ before = [f \in Flows |-> NoSub]
    /\ shown = [f \in Flows |-> <<>>]
    /\ notes = [i \in SubIds |-> <<>>]
    /\ bot_bound = TRUE

\* Variant of the exit that leaves the lock held
ReleaseNever(l) == locked

\* async with lock, on exit: Lock.release() clears _locked and wakes the first waiter
Release(l) == [locked EXCEPT ![l] = FALSE]

\* Variant that hands out an id another record may already have
FreshIdReused(f) == f + 1

\* Submission.id defaults to uuid.uuid4(): a fresh id for every record; the
\* record created by flow f gets the id f
FreshId(f) == f

\* SubmissionService.create_submission for an uploaded artifact: the record is
\* inserted, or the insert raises
CreateSubmission(f, artifacts) ==
    /\ pc[f] = "start"
    /\ \E ok \in BOOLEAN, a \in artifacts :
        IF ok
        THEN /\ subs' = [subs EXCEPT ![FreshId(f)] = NewSubmission("t1")]
             /\ flow_sub' = [flow_sub EXCEPT ![f] = FreshId(f)]
             /\ archive' = [archive EXCEPT ![f] = a]
             /\ pc' = [pc EXCEPT ![f] = "context"]
        ELSE /\ pc' = [pc EXCEPT ![f] = "failed"]
             /\ UNCHANGED << subs, flow_sub, archive >>
    /\ UNCHANGED << track, context, run, result, scorers, registered, scorer, results, judge_lock, locks_made,
                    my_lock, locked, waiters, launched, before, shown, notes,
                    bot_bound, admin_left >>
    /\ UNCHANGED << cacheVars, notifyVars, xferVars, sendVars, pathVars >>

\* what the lookups of _auto_from_submission can end as
ContextOutcomes == {"ok", "no_membership", "no_team", "no_track", "no_file", "raises"}

\* Variant that goes on without the artifact file
ResolvedWithoutFile(c) == c \in {"ok", "no_file"}

\* lines 166-198: every lookup returned something and the file exists
Resolved(c) == c = "ok"

\* _auto_from_submission lines 165-198: membership, team, track and file are
\* resolved, or the coordinator returns before taking the lock; a lookup that
\* raises is swallowed by auto_evaluate_create (lines 87-91), which returns the
\* created record all the same
ResolveContext(f, slugs) ==
    /\ pc[f] = "context"
    /\ \E c \in ContextOutcomes, slug \in slugs :
        /\ context' = [context EXCEPT ![f] = c]
        /\ IF Resolved(c)
           THEN /\ track' = [track EXCEPT ![f] = slug]
                /\ pc' = [pc EXCEPT ![f] = "lock"]
           ELSE /\ pc' = [pc EXCEPT ![f] = "audit"]
                /\ UNCHANGED track
    /\ UNCHANGED << subs, flow_sub, archive, run, result, scorers, registered, scorer, results,
                    judge_lock, locks_made, my_lock, locked, waiters, launched, before,
                    shown, notes, bot_bound, admin_left >>
    /\ UNCHANGED << cacheVars, notifyVars, xferVars, sendVars, pathVars >>

\* what the call of a registered scorer can do before its worker thread starts:
\* go on to _evaluate_sync, find the dataset missing, raise, or return None
ScorerCalls == { "runs", "dataset_missing", "raises", "returns_none" }

\* a scorer other than first_track's is any function of the scorer type: it
\* returns an outcome, returns None or raises
ScorerCallsOf(name) ==
    IF name = "first_track" THEN ScorerCalls ELSE { "returns", "raises", "returns_none" }

\* evaluate_submission lines 108-123 and _score_submission lines 56-66, entered
\* with the lock held: no scorer, or a scorer returning None, ends the
\* evaluation with None and the lock is released; a scorer that raises ends it
\* with AutoJudgeResult(success=False) and nothing to write; otherwise the
\* scorer, unless the dataset is missing, hands _evaluate_sync to a worker thread
EnterEvaluate(f, l) ==
    /\ scorer' = [scorer EXCEPT ![f] = Resolve(scorers, track[f])]
    /\ IF ~HasScorer(scorers, track[f])
       THEN /\ locked' = [locked EXCEPT ![l] = FALSE]
            /\ pc' = [pc EXCEPT ![f] = "audit"]
            /\ UNCHANGED result
       ELSE \E call \in ScorerCallsOf(Resolve(scorers, track[f])) :
                IF call = "runs"
                THEN /\ locked' = [locked EXCEPT ![l] = TRUE]
                     /\ pc' = [pc EXCEPT ![f] = "scoring"]
                     /\ UNCHANGED result
                ELSE IF call = "returns_none"
                THEN /\ locked' = [locked EXCEPT ![l] = FALSE]
                     /\ pc' = [pc EXCEPT ![f] = "audit"]
                     /\ UNCHANGED result
                ELSE /\ locked' = [locked EXCEPT ![l] = TRUE]
                     /\ result' = [result EXCEPT ![f] =
                                       IF call = "raises" THEN FailedResult
                                       ELSE IF call = "returns"
                                       THEN AutoJudgeResult("accepted", 0, Plain("none"), TRUE)
                                       ELSE ErrorResult("dataset_missing")]
                     /\ pc' = [pc EXCEPT ![f] = "persist"]

\* lines 206-207: lock = self._get_judge_lock(); async with lock (Lock.acquire):
\* a free lock with no waiter is taken at once, otherwise the task queues
AcquireLock(f) ==
    /\ pc[f] = "lock"
    /\ LET got == GetJudgeLock
           l == got.lock
       IN  /\ judge_lock' = l
           /\ locks_made' = got.made
           /\ my_lock' = [my_lock EXCEPT ![f] = l]
           /\ IF ~locked[l] /\ waiters[l] = <<>>
              THEN /\ EnterEvaluate(f, l)
                   /\ UNCHANGED waiters
              ELSE /\ waiters' = [waiters EXCEPT ![l] = Append(@, f)]
                   /\ pc' = [pc EXCEPT ![f] = "waiting"]
                   /\ UNCHANGED << locked, result, scorer >>
    /\ UNCHANGED << subs, flow_sub, archive, track, context, run, scorers, registered, results,
                    launched, before, shown, notes, bot_bound, admin_left >>
    /\ UNCHANGED << cacheVars, notifyVars, xferVars, sendVars, pathVars >>

\* Lock.acquire resumed: the first waiter of a released lock takes it
WakeUp(f) ==
    /\ pc[f] = "waiting"
    /\ ~locked[my_lock[f]]
    /\ waiters[my_lock[f]] # <<>>
    /\ Head(waiters[my_lock[f]]) = f
    /\ waiters' = [waiters EXCEPT ![my_lock[f]] = Tail(@)]
    /\ EnterEvaluate(f, my_lock[f])
    /\ UNCHANGED << subs, flow_sub, archive, track, context, run, scorers, registered, results,
                    judge_lock, locks_made, my_lock, launched, before, shown, notes,
                    bot_bound, admin_left >>
    /\ UNCHANGED << cacheVars, notifyVars, xferVars, sendVars, pathVars >>

\* _evaluate_sync in the worker thread: the archive is unpacked and checked, the
\* container is launched only for a valid workspace, and its output is scored
ScorerDone(f, runs) ==
    /\ pc[f] = "scoring"
    /\ IF BeforeContainer(archive[f]) # NoResult
       THEN /\ result' = [result EXCEPT ![f] = BeforeContainer(archive[f])]
            /\ UNCHANGED << launched, run >>
       ELSE /\ \E r \in runs :
                /\ run' = [run EXCEPT ![f] = r]
                /\ result' = [result EXCEPT ![f] = AfterContainer(r)]
            /\ launched' = [launched EXCEPT ![f] = TRUE]
    /\ pc' = [pc EXCEPT ![f] = "persist"]
    /\ UNCHANGED << subs, flow_sub, archive, track, context, scorers, registered, scorer, results,
                    judge_lock, locks_made, my_lock, locked, waiters, before, shown,
                    notes, bot_bound, admin_left >>
    /\ UNCHANGED << cacheVars, notifyVars, xferVars, sendVars, pathVars >>

\* Variant of the payload that writes 0 for an outcome without a value
OutcomeUpdateZero(id, outcome) ==
    SubmissionUpdate(id, IF outcome.value = NoValue THEN 0 ELSE outcome.value,
                     outcome.status, NoTitle)

\* evaluate_submission lines 125-129: the fields of the outcome that are written
OutcomeUpdate(id, outcome) == SubmissionUpdate(id, outcome.value, outcome.status, NoTitle)

\* line 130: if update: an outcome without value and status writes nothing
EmptyUpdate(upd) == upd.value = NoValue /\ upd.status = NoStatus

\* evaluate_submission lines 118-139, then the lock is released and the outcome
\* is stored (_auto_from_submission lines 207-215)
Persist(f) ==
    /\ pc[f] = "persist"
    /\ LET id == flow_sub[f]
           upd == OutcomeUpdate(id, result[f])
       IN  \E fault \in UpdateFaults :
            LET call == IF EmptyUpdate(upd)
                        THEN [raised |-> FALSE, rec |-> subs[id], attempts |-> <<>>,
                              delivered |-> 0]
                        ELSE UpdateSubmissionCall(subs[id], upd, fault, bot_bound)
                final == IF call.raised THEN FailedResult ELSE result[f]
            IN  /\ before' = [before EXCEPT ![f] = subs[id]]
                /\ subs' = [subs EXCEPT ![id] = call.rec]
                /\ notes' = [notes EXCEPT ![id] = @ \o call.attempts]
                /\ result' = [result EXCEPT ![f] = final]
                /\ results' = StoreResult(results, id, final)
    /\ locked' = Release(my_lock[f])
    /\ pc' = [pc EXCEPT ![f] = "audit"]
    /\ UNCHANGED << flow_sub, archive, track, context, run, scorers, registered, scorer, judge_lock,
                    locks_made, my_lock, waiters, launched, shown, bot_bound,
                    admin_left >>
    /\ UNCHANGED << cacheVars, notifyVars, xferVars, sendVars, pathVars >>

\* audit_log._wrap_async_callable lines 285-287 around create_submission: the
\* audit entry is written and the record returned, or the write raises
AuditCreate(f) ==
    /\ pc[f] = "audit"
    /\ \E ok \in BOOLEAN : pc' = [pc EXCEPT ![f] = IF ok THEN "home" ELSE "failed"]
    /\ UNCHANGED << subs, flow_sub, archive, track, context, run, result, scorers, registered, scorer,
                    results, judge_lock, locks_made, my_lock, locked, waiters, launched,
                    before, shown, notes, bot_bound, admin_left >>
    /\ UNCHANGED << cacheVars, notifyVars, xferVars, sendVars, pathVars >>

\* receive_submission_document lines 227-251 (and _assemble_and_submit_parts
\* lines 696-720): back to the home menu, then the outcome is popped and shown
ReturnHomeAndPop(f) ==
    /\ pc[f] = "home"
    /\ LET id == flow_sub[f]
           pop == PopResult(results, id)
       IN  /\ results' = pop.cache
           /\ IF pop.ret # NoResult
              THEN shown' = [shown EXCEPT ![f] = Append(@, [id |-> id, outcome |-> pop.ret])]
              ELSE UNCHANGED shown
    /\ pc' = [pc EXCEPT ![f] = "done"]
    /\ UNCHANGED << subs, flow_sub, archive, track, context, run, result, scorers, registered, scorer,
                    judge_lock, locks_made, my_lock, locked, waiters, launched, before,
                    notes, bot_bound, admin_left >>
    /\ UNCHANGED << cacheVars, notifyVars, xferVars, sendVars, pathVars >>

\* submissions_status_apply lines 762-780: an administrator rates a pending
\* submission or re-rates an accepted one
AdminRate ==
    /\ admin_left > 0
    /\ \E id \in SubIds, st \in {"accepted", "rejected", "error"}, v \in {NoValue, 1},
          fault \in {"none", "forbidden", "db_error"} :
        /\ subs[id] # NoSub
        /\ subs[id].status \in {"pending", "accepted"}
        /\ LET call == UpdateSubmissionCall(subs[id], SubmissionUpdate(id, v, st, NoTitle),
                                            fault, bot_bound)
           IN  /\ subs' = [subs EXCEPT ![id] = call.rec]
               /\ notes' = [notes EXCEPT ![id] = @ \o call.attempts]
    /\ admin_left' = admin_left - 1
    /\ UNCHANGED << pc, flow_sub, archive, track, context, run, result, scorers, registered, scorer,
                    results, judge_lock, locks_made, my_lock, locked, waiters, launched,
                    before, shown, bot_bound >>
    /\ UNCHANGED << cacheVars, notifyVars, xferVars, sendVars, pathVars >>

(***************************************************************************)
(* Spec: concurrent uploads, each evaluated by the coordinator.            *)
(***************************************************************************)
JudgeArchives == { a \in Archives : a.files = {<<"main.py">>} }
JudgeSlugs == { <<"a">>, <<"b">> }
JudgeRuns == { r \in RunOutcomes : r.kind = "timeout" \/ (r.output = "rows" /\ r.input_kept /\ r.correct = 1 /\ r.bonus = 0) }

InitJudge == InitCoordinator(Flows) /\ AtStartUp /\ admin_left = 0 /\ CacheIdle /\ SendIdle /\ PathIdle /\ NotifyIdle /\ TransferIdle

NextJudge ==
    \/ \E f \in Flows : CreateSubmission(f, JudgeArchives)
    \/ \E f \in Flows : ResolveContext(f, JudgeSlugs)
    \/ \E f \in Flows : AcquireLock(f)
    \/ \E f \in Flows : WakeUp(f)
    \/ \E f \in Flows : ScorerDone(f, JudgeRuns)
    \/ \E f \in Flows : Persist(f)
    \/ \E f \in Flows : AuditCreate(f)
    \/ \E f \in Flows : ReturnHomeAndPop(f)

(***************************************************************************)
(* SpecEval: one upload with every archive, track and container run,       *)
(* while an administrator rates the same submission.                       *)
(***************************************************************************)
InitEval == InitCoordinator({1}) /\ AtStartUp /\ admin_left = MaxAdminUpdates /\ CacheIdle /\ SendIdle /\ PathIdle /\ NotifyIdle /\ TransferIdle

NextEval ==
    \/ \E f \in Flows : CreateSubmission(f, Archives)
    \/ \E f \in Flows : ResolveContext(f, TrackSlugs)
    \/ \E f \in Flows : AcquireLock(f)
    \/ \E f \in Flows : ScorerDone(f, RunOutcomes)
    \/ \E f \in Flows : Persist(f)
    \/ \E f \in Flows : AuditCreate(f)
    \/ \E f \in Flows : ReturnHomeAndPop(f)
    \/ AdminRate

(***************************************************************************)
(* SpecCache: the result cache under arbitrary stores and pops.            *)
(***************************************************************************)
\* _auto_from_submission lines 214-215: self._results[submission.id] = result
CachePut(id, outcome) ==
    /\ results' = StoreResult(results, id, outcome)
    /\ last_op' = [op |-> "put", id |-> id, ret |-> NoResult, arg |-> outcome]
    /\ prev_op' = last_op
    /\ cache_was' = results
    /\ UNCHANGED << pc, subs, flow_sub, archive, track, context, run, result, scorers, registered, scorer,
                    judge_lock, locks_made, my_lock, locked, waiters, launched, before,
                    shown, notes, bot_bound, admin_left >>
    /\ UNCHANGED << notifyVars, xferVars, sendVars, pathVars >>

\* pop_result lines 141-143
CachePop(id) ==
    /\ results' = PopResult(results, id).cache
    /\ last_op' = [op |-> "pop", id |-> id, ret |-> PopResult(results, id).ret,
                   arg |-> NoResult]
    /\ prev_op' = last_op
    /\ cache_was' = results
    /\ UNCHANGED << pc, subs, flow_sub, archive, track, context, run, result, scorers, registered, scorer,
                    judge_lock, locks_made, my_lock, locked, waiters, launched, before,
                    shown, notes, bot_bound, admin_left >>
    /\ UNCHANGED << notifyVars, xferVars, sendVars, pathVars >>

InitCache == InitCoordinator({}) /\ AtStartUp /\ admin_left = 0 /\ CacheIdle /\ SendIdle /\ PathIdle /\ NotifyIdle /\ TransferIdle

NextCache ==
    \/ \E id \in SubIds, o \in CacheOutcomes : CachePut(id, o)
    \/ \E id \in SubIds : CachePop(id)

(***************************************************************************)
(* SpecNotify: one call of update_submission taken step by step through    *)
(* its wrappers, while other callers update the same submission.           *)
(***************************************************************************)
NotifyPayloads ==
    { SubmissionUpdate(1, v, st, t) :
        v \in {NoValue, 1}, st \in {NoStatus, "pending", "accepted"}, t \in {NoTitle, "t2"} }

\* the call is made: _extract_update_payload finds the SubmissionUpdate
BeginUpdate(payloads) ==
    /\ u_pc = "idle"
    /\ \E upd \in payloads : u_payload' = upd
    /\ u_pc' = "snapshot"
    /\ UNCHANGED << judgeVars, cacheVars, xferVars, sendVars, pathVars, u_prev, u_updated, u_sent, u_env, u_ret,
                    others_left >>

\* _safe_snapshot: the current record, or None when get_submission raises
TakeSnapshot ==
    /\ u_pc = "snapshot"
    /\ \E ok \in BOOLEAN :
        u_prev' = IF ok THEN subs[u_payload.id] ELSE NoSub
    /\ u_pc' = "update"
    /\ UNCHANGED << judgeVars, cacheVars, xferVars, sendVars, pathVars, u_payload, u_updated, u_sent, u_env, u_ret,
                    others_left >>

\* SubmissionService.update_submission lines 66-76: the record is written and
\* returned, or a lookup or the write raises and nothing is written
WriteUpdate ==
    /\ u_pc = "update"
    /\ \E fault \in {"none", "team_user_missing", "db_error"} :
        IF fault = "none" /\ subs[u_payload.id] # NoSub
        THEN /\ subs' = [subs EXCEPT ![u_payload.id] = DbUpdateSubmission(@, u_payload)]
             /\ u_updated' = DbUpdateSubmission(subs[u_payload.id], u_payload)
             /\ u_pc' = "notify"
             /\ UNCHANGED u_ret
        ELSE /\ u_pc' = "raised"
             /\ u_ret' = [state |-> "raised", by |-> "update", rec |-> NoSub]
             /\ UNCHANGED << subs, u_updated >>
    /\ UNCHANGED << pc, flow_sub, archive, track, context, run, result, scorers, registered, scorer, results,
                    judge_lock, locks_made, my_lock, locked, waiters, launched, before,
                    shown, notes, bot_bound, admin_left >>
    /\ UNCHANGED << cacheVars, xferVars, sendVars, pathVars, u_payload, u_prev, u_sent, u_env, others_left >>

\* notify_update._wrapper lines 48-57: the notify step under its try/except
NotifyStep ==
    /\ u_pc = "notify"
    /\ \E fault \in NotifyFaults :
        LET note == NotifyWrapper(u_prev, u_updated, fault, bot_bound)
        IN  /\ u_sent' = note.attempts
            /\ notes' = [notes EXCEPT ![u_payload.id] = @ \o note.attempts]
            /\ u_env' = [fault |-> fault, bound |-> bot_bound]
            /\ IF note.raised
               THEN /\ u_pc' = "raised"
                    /\ u_ret' = [state |-> "raised", by |-> "notify", rec |-> NoSub]
               ELSE /\ u_pc' = "audit"
                    /\ UNCHANGED u_ret
    /\ UNCHANGED << pc, subs, flow_sub, archive, track, context, run, result, scorers, registered, scorer, results,
                    judge_lock, locks_made, my_lock, locked, waiters, launched, before,
                    shown, bot_bound, admin_left >>
    /\ UNCHANGED << cacheVars, xferVars, sendVars, pathVars, u_payload, u_prev, u_updated, others_left >>

\* audit_log._wrap_async_callable lines 285-287 around update_submission
AuditUpdate ==
    /\ u_pc = "audit"
    /\ \E ok \in BOOLEAN :
        IF ok
        THEN /\ u_pc' = "returned"
             /\ u_ret' = [state |-> "returned", by |-> "none", rec |-> u_updated]
        ELSE /\ u_pc' = "raised"
             /\ u_ret' = [state |-> "raised", by |-> "audit", rec |-> NoSub]
    /\ UNCHANGED << judgeVars, cacheVars, xferVars, sendVars, pathVars, u_payload, u_prev, u_updated, u_sent, u_env,
                    others_left >>

\* another caller's update_submission on the same record, from start to end
OtherUpdate(payloads) ==
    /\ others_left > 0
    /\ \E upd \in payloads, fault \in {"none", "forbidden", "db_error"} :
        LET call == UpdateSubmissionCall(subs[upd.id], upd, fault, bot_bound)
        IN  /\ subs' = [subs EXCEPT ![upd.id] = call.rec]
            /\ notes' = [notes EXCEPT ![upd.id] = @ \o call.attempts]
    /\ others_left' = others_left - 1
    /\ UNCHANGED << pc, flow_sub, archive, track, context, run, result, scorers, registered, scorer, results,
                    judge_lock, locks_made, my_lock, locked, waiters, launched, before,
                    shown, bot_bound, admin_left >>
    /\ UNCHANGED << cacheVars, xferVars, sendVars, pathVars, u_pc, u_payload, u_prev, u_updated, u_sent, u_env, u_ret >>

InitNotify ==
    /\ pc = [f \in Flows |-> "off"]
    /\ subs = [i \in SubIds |-> IF i = 1 THEN NewSubmission("t1") ELSE NoSub]
    /\ flow_sub = [f \in Flows |-> 0]
    /\ archive = [f \in Flows |-> NoArchive]
    /\ track = [f \in Flows |-> <<>>]
    /\ context = [f \in Flows |-> "none"]
    /\ run = [f \in Flows |-> NoRun]
    /\ result = [f \in Flows |-> NoResult]
    /\ scorer = [f \in Flows |-> NoScorer]
    /\ results = [i \in SubIds |-> NoResult]
    /\ judge_lock = NoLock
    /\ locks_made = 0
    /\ my_lock = [f \in Flows |-> NoLock]
    /\ locked = [l \in LockIds |-> FALSE]
    /\ waiters = [l \in LockIds |-> <<>>]
    /\ launched = [f \in Flows |-> FALSE]
    /\ before = [f \in Flows |-> NoSub]
    /\ shown = [f \in Flows |-> <<>>]
    /\ notes = [i \in SubIds |-> <<>>]
    /\ bot_bound = TRUE
    /\ admin_left = 0
    /\ AtStartUp
    /\ CacheIdle /\ SendIdle /\ PathIdle
    /\ TransferIdle
    /\ u_pc = "idle"
    /\ u_payload = NoPayload
    /\ u_prev = NoSub
    /\ u_updated = NoSub
    /\ u_sent = <<>>
    /\ u_env = NoEnv
    /\ u_ret = NoReturn
    /\ others_left = MaxOtherUpdates

NextNotify ==
    \/ BeginUpdate(NotifyPayloads)
    \/ TakeSnapshot
    \/ WriteUpdate
    \/ NotifyStep
    \/ AuditUpdate
    \/ OtherUpdate(NotifyPayloads)

(***************************************************************************)
(* The handlers of the chunked upload.                                     *)
(***************************************************************************)
Quiet == \A h \in Handlers : h_pc[h] = "idle"

\* what the user has sent so far, judged without looking at the handler's state
SentInOrder(doc) ==
    /\ doc.kind = "part"
    /\ IF sent = 0 THEN doc.n \in FirstPartNumbers ELSE doc.n = first_sent + sent

\* start_submission lines 111-155: the FSM state is cleared, and unless the team
\* may not submit the chat enters submit mode
StartSubmission(oks) ==
    /\ ui = "home"
    /\ fsm' = "none"
    /\ data' = ClearedData
    /\ event' = [kind |-> "submit", n |-> NoPart, word |-> NoWord]
    /\ \E ok \in oks :
        /\ ui' = IF ok THEN "submit" ELSE ui
        /\ reply' = Answer(IF ok THEN "entered" ELSE "not_entered")
    /\ clean' = FALSE
    /\ declared' = 0
    /\ first_sent' = NoPart
    /\ sent' = 0
    /\ UNCHANGED << tmp_files, workspace, dest, submitted, h_pc, h_doc, h_data, assemblies,
                    trace >>
    /\ UNCHANGED << judgeVars, cacheVars, notifyVars, sendVars, pathVars >>

\* show_multipart_hint lines 279-300
StartMultipart ==
    /\ ui = "submit"
    /\ fsm' = "waiting_total"
    /\ data' = ClearedData
    /\ reply' = Answer("ask_total")
    /\ event' = [kind |-> "send_parts", n |-> NoPart, word |-> NoWord]
    /\ assemblies' = 0
    /\ declared' = 0
    /\ first_sent' = NoPart
    /\ sent' = 0
    /\ clean' = FALSE
    /\ UNCHANGED << ui, tmp_files, workspace, dest, submitted, h_pc, h_doc, h_data, trace >>
    /\ UNCHANGED << judgeVars, cacheVars, notifyVars, sendVars, pathVars >>

\* multipart_set_total lines 303-340
SetTotal(texts) ==
    /\ ui = "submit"
    /\ fsm = "waiting_total"
    /\ \E text \in texts :
        /\ event' = [kind |-> "text", n |-> text.n, word |-> text.word]
        /\ IF IsCancel(text)
           THEN /\ fsm' = "none"
                /\ data' = ClearedData
                /\ reply' = Answer("cancelled")
                /\ UNCHANGED << declared, clean >>
           ELSE IF ~ParseTotal(text).ok \/ ~ValidTotal(ParseTotal(text).total)
           THEN /\ reply' = Answer("invalid_total")
                /\ UNCHANGED << fsm, data, declared, clean >>
           ELSE /\ data' = [ClearedData EXCEPT !.expected = ParseTotal(text).total]
                /\ fsm' = "collecting"
                /\ reply' = Answer("ready")
                /\ declared' = ParseTotal(text).total
                /\ clean' = TRUE
    /\ UNCHANGED << ui, tmp_files, workspace, dest, submitted, h_pc, h_doc, h_data,
                    assemblies, first_sent, sent, trace >>
    /\ UNCHANGED << judgeVars, cacheVars, notifyVars, sendVars, pathVars >>

\* receive_submission_document lines 158-199 and _handle_multipart_part lines
\* 343-429: a document arrives and is routed; an accepted one starts to download
ReceiveDocument(h, docs, plans, traced) ==
    /\ ui = "submit"
    /\ h_pc[h] = "idle"
    /\ traced => Len(trace) < MaxTrace
    /\ \E doc \in docs, plan \in plans :
        LET go == RouteDocument(fsm, data, doc, plan, Len(submitted) + 1)
        IN  /\ event' = doc
            /\ fsm' = go.fsm
            /\ ui' = go.ui
            /\ data' = go.data
            /\ reply' = go.reply
            /\ h_pc' = [h_pc EXCEPT ![h] = go.pc]
            /\ h_doc' = [h_doc EXCEPT ![h] = doc]
            /\ h_data' = [h_data EXCEPT ![h] = go.locals]
            /\ workspace' = (workspace \/ go.pc = "download")
            /\ IF fsm = "collecting" /\ doc.kind = "part"
               THEN /\ clean' = (clean /\ SentInOrder(doc) /\ go.verdict # "plan_refused")
                    /\ sent' = IF clean' THEN sent + 1 ELSE 0
                    /\ first_sent' = IF ~clean' THEN NoPart
                                     ELSE IF sent = 0 THEN doc.n ELSE first_sent
                    /\ trace' = IF traced
                                THEN Append(trace, [n |-> doc.n, verdict |-> go.verdict,
                                                    expected |-> go.reply.expected,
                                                    received |-> go.data.received])
                                ELSE trace
               ELSE /\ clean' = (clean /\ go.verdict # "plan_refused")
                    /\ sent' = IF clean' THEN sent ELSE 0
                    /\ first_sent' = IF clean' THEN first_sent ELSE NoPart
                    /\ UNCHANGED trace
    /\ declared' = IF clean' \/ traced THEN declared ELSE 0
    /\ UNCHANGED << tmp_files, dest, submitted, assemblies >>
    /\ UNCHANGED << judgeVars, cacheVars, notifyVars, sendVars, pathVars >>

\* _handle_multipart_part lines 431-496: the download ends; a failed one removes
\* the part file and changes nothing else, a finished one is recorded
DownloadEnd(h, oks, traced) ==
    /\ h_pc[h] = "download"
    /\ \E ok \in oks :
        LET n == h_doc[h].n
            parts == AppendPart(h_data[h].parts, n)
            received == h_data[h].received + 1
            mark(v, r) == IF traced /\ trace # <<>>
                          THEN [trace EXCEPT ![Len(trace)].verdict = v,
                                             ![Len(trace)].received = r]
                          ELSE trace
        IN  IF ~ok
            THEN /\ tmp_files' = [tmp_files EXCEPT ![n] = NoFile]
                 /\ reply' = Answer("download_failed")
                 /\ h_pc' = [h_pc EXCEPT ![h] = "idle"]
                 /\ clean' = FALSE
                 /\ declared' = IF traced THEN declared ELSE 0
                 /\ first_sent' = NoPart
                 /\ sent' = 0
                 /\ trace' = mark("download_failed", data.received)
                 /\ UNCHANGED << data, h_data >>
            ELSE /\ tmp_files' = [tmp_files EXCEPT ![n] = [exists |-> TRUE, bytes |-> PartBytes(n)]]
                 /\ data' = [data EXCEPT !.parts = parts, !.received = received]
                 /\ h_data' = [h_data EXCEPT ![h].parts = parts, ![h].received = received]
                 /\ trace' = mark("stored", received)
                 /\ UNCHANGED << clean, declared, first_sent, sent >>
                 /\ IF received < h_data[h].expected
                    THEN /\ reply' = [kind |-> "next", expected |-> received + 1, got |-> NoPart]
                         /\ h_pc' = [h_pc EXCEPT ![h] = "idle"]
                    ELSE /\ reply' = Answer("assembling")
                         /\ h_pc' = [h_pc EXCEPT ![h] = "assemble"]
    /\ UNCHANGED << ui, fsm, workspace, dest, submitted, event, h_doc, assemblies >>
    /\ UNCHANGED << judgeVars, cacheVars, notifyVars, sendVars, pathVars >>

\* _assemble_and_submit_parts lines 663-665 and 670-673: the destination is
\* opened for writing, which empties a file already there; when that fails the
\* destination is removed and the handler ends
Assemble(h, ios) ==
    /\ h_pc[h] = "assemble"
    /\ \E io \in ios :
        IF io
        THEN /\ dest' = [exists |-> TRUE, bytes |-> <<>>]
             /\ h_pc' = [h_pc EXCEPT ![h] = "copy"]
             /\ UNCHANGED reply
        ELSE /\ dest' = NoFile
             /\ reply' = Answer("assemble_failed")
             /\ h_pc' = [h_pc EXCEPT ![h] = "idle"]
    /\ h_data' = [h_data EXCEPT ![h].copied = 0]
    /\ assemblies' = assemblies + 1
    /\ UNCHANGED << ui, fsm, data, tmp_files, workspace, submitted, event, h_doc, declared,
                    first_sent, sent, clean, trace >>
    /\ UNCHANGED << judgeVars, cacheVars, notifyVars, sendVars, pathVars >>

\* lines 666-673: the next part of the list is copied to the end of the
\* destination; after the last one the destination is closed; on any I/O error
\* (a part file that is gone, a failed read or write) the destination is
\* removed and the handler ends
CopyPart(h, ios) ==
    /\ h_pc[h] = "copy"
    /\ \E io \in ios :
        LET parts == h_data[h].parts
            next == h_data[h].copied + 1
        IN  IF io /\ tmp_files[parts[next]].exists
            THEN /\ dest' = [exists |-> TRUE,
                             bytes |-> dest.bytes \o tmp_files[parts[next]].bytes]
                 /\ h_data' = [h_data EXCEPT ![h].copied = next]
                 /\ h_pc' = [h_pc EXCEPT ![h] = IF next = Len(parts) THEN "create" ELSE "copy"]
                 /\ UNCHANGED reply
            ELSE /\ dest' = NoFile
                 /\ reply' = Answer("assemble_failed")
                 /\ h_pc' = [h_pc EXCEPT ![h] = "idle"]
                 /\ UNCHANGED h_data
    /\ UNCHANGED << ui, fsm, data, tmp_files, workspace, submitted, event, h_doc, assemblies,
                    declared, first_sent, sent, clean, trace >>
    /\ UNCHANGED << judgeVars, cacheVars, notifyVars, sendVars, pathVars >>

\* _cleanup_tmp_dir lines 723-736: rmdir removes the directory only when it is empty
CleanupTmpDir(dir, files) == dir /\ (\E n \in PartNos : files[n].exists)

\* how create_submission can end for the handler that awaits it: the record is
\* stored and returned; the call raises with nothing stored (a lookup or the
\* insert fails); or the record is stored and the call raises afterwards
\* (audit_log._wrap_async_callable lines 285-287: the audit entry is written
\* after the call returned, and its failure leaves the wrapper)
CreateResults == {"saved", "create_failed"}
CreateOutcomes == CreateResults \cup {"raised_late"}
SingleOutcomes == {"download_failed"} \cup CreateResults

\* _assemble_and_submit_parts lines 675-701: create_submission for the assembled
\* artifact; the part files of the list are removed either way, and the tmp
\* directory named in the FSM data is removed when nothing is left in it; when
\* the call raises the destination is removed
CreateFromParts(h, outcomes) ==
    /\ h_pc[h] = "create"
    /\ tmp_files' = [n \in PartNos |->
                        IF \E i \in 1..Len(h_data[h].parts) : h_data[h].parts[i] = n
                        THEN NoFile ELSE tmp_files[n]]
    /\ workspace' = IF data.tmp_dir THEN CleanupTmpDir(workspace, tmp_files') ELSE workspace
    /\ \E outcome \in outcomes :
        IF outcome = "saved"
        THEN /\ submitted' = Append(submitted, dest.bytes)
             /\ fsm' = "none"
             /\ data' = ClearedData
             /\ ui' = "home"
             /\ reply' = Answer("saved")
             /\ UNCHANGED dest
        ELSE /\ dest' = NoFile
             /\ reply' = Answer("error")
             /\ submitted' = IF outcome = "raised_late" THEN Append(submitted, dest.bytes)
                             ELSE submitted
             /\ UNCHANGED << fsm, data, ui >>
    /\ h_pc' = [h_pc EXCEPT ![h] = "idle"]
    /\ UNCHANGED << event, h_doc, h_data, assemblies, declared, first_sent, sent, clean,
                    trace >>
    /\ UNCHANGED << judgeVars, cacheVars, notifyVars, sendVars, pathVars >>

\* receive_submission_document lines 188-232: the single archive is downloaded
\* to the destination and the submission created; a failed download removes
\* the destination, a failed create_submission leaves it in place
SingleFinish(h, outcomes) ==
    /\ h_pc[h] = "single"
    /\ \E outcome \in outcomes :
        IF outcome = "download_failed"
        THEN /\ dest' = NoFile
             /\ reply' = Answer("download_failed")
             /\ UNCHANGED << submitted, fsm, data, ui >>
        ELSE IF outcome \in {"create_failed", "raised_late"}
        THEN /\ dest' = [exists |-> TRUE, bytes |-> WholeArchive]
             /\ reply' = Answer("error")
             /\ submitted' = IF outcome = "raised_late" THEN Append(submitted, WholeArchive)
                             ELSE submitted
             /\ UNCHANGED << fsm, data, ui >>
        ELSE /\ dest' = [exists |-> TRUE, bytes |-> WholeArchive]
             /\ submitted' = Append(submitted, WholeArchive)
             /\ fsm' = "none"
             /\ data' = ClearedData
             /\ ui' = "home"
             /\ reply' = Answer("saved")
    /\ h_pc' = [h_pc EXCEPT ![h] = "idle"]
    /\ UNCHANGED << tmp_files, workspace, event, h_doc, h_data, assemblies, declared,
                    first_sent, sent, clean, trace >>
    /\ UNCHANGED << judgeVars, cacheVars, notifyVars, sendVars, pathVars >>

\* submission_back_home lines 501-506; while the total is awaited the text of
\* the button is taken by multipart_set_total instead
BackHome ==
    /\ ui = "submit"
    /\ fsm # "waiting_total"
    /\ fsm' = "none"
    /\ data' = ClearedData
    /\ ui' = "home"
    /\ reply' = Answer("cancelled")
    /\ event' = [kind |-> "back", n |-> NoPart, word |-> NoWord]
    /\ clean' = FALSE
    /\ declared' = 0
    /\ first_sent' = NoPart
    /\ sent' = 0
    /\ UNCHANGED << tmp_files, workspace, dest, submitted, h_pc, h_doc, h_data, assemblies,
                    trace >>
    /\ UNCHANGED << judgeVars, cacheVars, notifyVars, sendVars, pathVars >>

(***************************************************************************)
(* SpecTransfer: one chat in submit mode, its messages handled one after   *)
(* the other, with every total, part number and failure.                   *)
(***************************************************************************)
InSubmitMode(state_name) ==
    /\ ui = "submit"
    /\ fsm = state_name
    /\ data = ClearedData
    /\ tmp_files = [n \in PartNos |-> NoFile]
    /\ workspace = FALSE
    /\ dest = NoFile
    /\ submitted = <<>>
    /\ reply = Answer("none")
    /\ event = NoEvent
    /\ h_pc = [h \in Handlers |-> "idle"]
    /\ h_doc = [h \in Handlers |-> NoEvent]
    /\ h_data = [h \in Handlers |-> NoLocals]
    /\ assemblies = 0
    /\ declared = 0
    /\ first_sent = NoPart
    /\ sent = 0
    /\ clean = FALSE
    /\ trace = <<>>

\* the part numbers worth sending in the current state: the two possible first
\* numbers, the last one, and the expected number with its neighbours
NearParts ==
    { n \in PartNos :
        \/ n \in FirstPartNumbers
        \/ n = MaxPartNo
        \/ /\ data.first_part # NoPart
           /\ n - (data.first_part + data.received) \in {-1, 0, 1} }

InitTransfer ==
    InitCoordinator({}) /\ AtStartUp /\ admin_left = 0 /\ CacheIdle /\ SendIdle /\ PathIdle /\ NotifyIdle /\ InSubmitMode("none")

NextTransfer ==
    \/ Quiet /\ fsm # "collecting" /\ StartMultipart
    \/ Quiet /\ SetTotal(TotalTexts)
    \/ ReceiveDocument(1, PartDocs(NearParts) \cup OtherDocs, {"ok", "refused"}, FALSE)
    \/ DownloadEnd(1, BOOLEAN, FALSE)
    \/ Assemble(1, BOOLEAN)
    \/ CopyPart(1, BOOLEAN)
    \/ CreateFromParts(1, CreateResults)
    \/ SingleFinish(1, SingleOutcomes)
    \/ Quiet /\ BackHome

(***************************************************************************)
(* SpecScenario: one session of two or three parts, with the parts sent    *)
(* and what became of each kept in `trace`.                                *)
(***************************************************************************)
ScenarioTexts == { t \in TotalTexts : t.word = "int" /\ t.n \in {2, 3} }
ScenarioParts == 0..3

InitScenario ==
    InitCoordinator({}) /\ AtStartUp /\ admin_left = 0 /\ CacheIdle /\ SendIdle /\ PathIdle /\ NotifyIdle
    /\ InSubmitMode("waiting_total")

NextScenario ==
    \/ Quiet /\ SetTotal(ScenarioTexts)
    \/ ReceiveDocument(1, PartDocs(ScenarioParts), {"ok"}, TRUE)
    \/ DownloadEnd(1, BOOLEAN, TRUE)
    \/ Assemble(1, BOOLEAN)
    \/ CopyPart(1, BOOLEAN)
    \/ CreateFromParts(1, CreateResults)

(***************************************************************************)
(* SpecSession: the sessions of one chat under one plan (one sequence      *)
(* number, so one tmp directory and one destination), of two or three      *)
(* parts, with a fresh "send in parts" request, Back and a new entry into  *)
(* submit mode at any time between two messages.                           *)
(***************************************************************************)
SessionTexts == { t \in TotalTexts : t.word \in {"int", "cancel"} /\ t.n \in {0, 2, 3} }

InitSession ==
    InitCoordinator({}) /\ AtStartUp /\ admin_left = 0 /\ CacheIdle /\ SendIdle /\ PathIdle /\ NotifyIdle /\ InSubmitMode("none")

NextSession ==
    \/ Quiet /\ submitted = <<>> /\ StartSubmission(BOOLEAN)
    \/ Quiet /\ StartMultipart
    \/ Quiet /\ SetTotal(SessionTexts)
    \/ ReceiveDocument(1, PartDocs(ScenarioParts), {"ok"}, FALSE)
    \/ DownloadEnd(1, BOOLEAN, FALSE)
    \/ Assemble(1, BOOLEAN)
    \/ CopyPart(1, BOOLEAN)
    \/ CreateFromParts(1, CreateResults)
    \/ Quiet /\ BackHome

(***************************************************************************)
(* SpecNames: one chat in submit mode that sends documents under every     *)
(* kind of file name, in every state of the transfer.                      *)
(***************************************************************************)
NameTexts == { t \in TotalTexts : t.word \in {"int", "cancel"} /\ t.n \in {0, 2} }

InitNames ==
    InitCoordinator({}) /\ AtStartUp /\ admin_left = 0 /\ CacheIdle /\ SendIdle /\ PathIdle /\ NotifyIdle /\ InSubmitMode("none")

NextNames ==
    \/ Quiet /\ StartMultipart
    \/ Quiet /\ SetTotal(NameTexts)
    \/ ReceiveDocument(1, NamedDocs, {"ok", "refused"}, FALSE)
    \/ DownloadEnd(1, BOOLEAN, FALSE)
    \/ Assemble(1, BOOLEAN)
    \/ CopyPart(1, BOOLEAN)
    \/ CreateFromParts(1, CreateResults)
    \/ SingleFinish(1, SingleOutcomes)
    \/ Quiet /\ BackHome

SpecNames == InitNames /\ [][NextNames]_vars

(***************************************************************************)
(* SpecDelivery: an administrator downloads the artifact of a submission.  *)
(* The artifact of size S holds the bytes 1..S; the part bound is counted  *)
(* in bytes as well.                                                       *)
(***************************************************************************)
Max(a, b) == IF a > b THEN a ELSE b
Min(a, b) == IF a < b THEN a ELSE b

\* str(n): the decimal digits of a natural number
RECURSIVE Digits(_)
Digits(n) == IF n < 10 THEN << n >> ELSE Digits(n \div 10) \o << n % 10 >>

\* f"{idx:0{width}d}": zeros in front up to the width, never cut
RECURSIVE Pad(_, _)
Pad(digits, width) == IF Len(digits) >= width THEN digits ELSE Pad(<< 0 >> \o digits, width)

\* path.name, and f"{base_name}.part{idx:0{width}d}"
OwnName == [base |-> "artifact", part |-> << >>]
PartName(idx, width) == [base |-> "artifact", part |-> Pad(Digits(idx), width)]

\* Variant of the part count that rounds down
TotalPartsFloor(total_size, chunk_size) == Max(1, total_size \div chunk_size)

\* line 311: total_parts = max(1, (total_size + chunk_size - 1) // chunk_size)
TotalParts(total_size, chunk_size) == Max(1, (total_size + chunk_size - 1) \div chunk_size)

\* src.read(chunk_size) at position pos: up to chunk_size bytes, fewer at the end
ReadChunk(bytes, pos, chunk_size) == SubSeq(bytes, pos + 1, Min(Len(bytes), pos + chunk_size))

ArtifactBytes(size) == [i \in 1..size |-> i]
ArtifactSizes == 0..MaxSize
ChunkSizes == 1..MaxChunk

\* how one answer_document call can end, and the retry_after a
\* TelegramRetryAfter carries
SendOutcomes == { "ok", "retry_after", "other" }
AdvisedDelays == { 0, 1, 3 }
Retries == 3

\* lines 363-364: delay = getattr(exc, "retry_after", 2) or 2; sleep(max(1, int(delay)))
Delay(retry_after) == Max(1, IF retry_after = 0 THEN 2 ELSE retry_after)

\* Variant that retries after every failure
MayRetryAny(attempt, outcome) == outcome # "ok" /\ attempt < Retries

\* lines 355-364: for attempt in range(3), only TelegramRetryAfter is caught
MayRetry(attempt, outcome) == outcome = "retry_after" /\ attempt < Retries

\* Variant that goes on with the next part when a part was given up
OnGiveUpSkip(idx, total) ==
    [pc |-> IF idx = total THEN "done" ELSE "part", idx |-> idx + 1, raised |-> FALSE]

\* lines 365-369 and 336-351: the exception of the last attempt leaves
\* _deliver_chunk and with it the loop over the parts
OnGiveUp(idx, total) == [pc |-> "raised", idx |-> idx, raised |-> TRUE]

\* _send_submission_file lines 296-325: the size is read (0 when stat fails),
\* a file within the bound is sent whole, otherwise the parts are announced
SendSubmissionFile(sizes, chunks) ==
    /\ d_pc = "idle"
    /\ \E size \in sizes, limit \in chunks, exists \in BOOLEAN, announced \in BOOLEAN :
        LET chunk_size == Max(1, limit)
            total_size == IF exists THEN size ELSE 0
        IN  /\ d_file' = [exists |-> exists, bytes |-> IF exists THEN ArtifactBytes(size) ELSE <<>>]
            /\ d_chunk_size' = chunk_size
            /\ IF total_size <= chunk_size
               THEN /\ d_pc' = "single"
                    /\ UNCHANGED << d_total, d_width, d_idx, d_error >>
               ELSE /\ d_total' = TotalParts(total_size, chunk_size)
                    /\ d_width' = Len(Digits(TotalParts(total_size, chunk_size)))
                    /\ d_idx' = 1
                    /\ d_pc' = IF announced THEN "part" ELSE "raised"
                    /\ d_error' = IF announced THEN "none" ELSE "other"
    /\ UNCHANGED << d_pos, d_chunk, d_tries, d_wait, d_sent, d_inflight >>
    /\ UNCHANGED << judgeVars, cacheVars, notifyVars, xferVars, pathVars >>

\* lines 303-309: answer_document(FSInputFile(path, filename=path.name)); a
\* file that is not there, or a failed call, raises
SendWhole ==
    /\ d_pc = "single"
    /\ \E ok \in BOOLEAN :
        IF ok /\ d_file.exists
        THEN /\ d_sent' = Append(d_sent, [name |-> OwnName, bytes |-> d_file.bytes])
             /\ d_pc' = "done"
             /\ UNCHANGED d_error
        ELSE /\ d_pc' = "raised"
             /\ d_error' = "other"
             /\ UNCHANGED d_sent
    /\ UNCHANGED << d_file, d_chunk_size, d_total, d_width, d_idx, d_pos, d_chunk,
                    d_tries, d_wait, d_inflight >>
    /\ UNCHANGED << judgeVars, cacheVars, notifyVars, xferVars, pathVars >>

\* _send_document_parts lines 338-341: the next chunk is read; an empty read
\* ends the loop
ReadPart ==
    /\ d_pc = "part"
    /\ LET chunk == ReadChunk(d_file.bytes, d_pos, d_chunk_size)
       IN  IF chunk = <<>>
           THEN /\ d_pc' = "done"
                /\ UNCHANGED << d_pos, d_chunk, d_tries >>
           ELSE /\ d_chunk' = chunk
                /\ d_pos' = d_pos + Len(chunk)
                /\ d_tries' = <<>>
                /\ d_pc' = "attempt"
    /\ UNCHANGED << d_file, d_chunk_size, d_total, d_width, d_idx, d_wait, d_sent,
                    d_inflight, d_error >>
    /\ UNCHANGED << judgeVars, cacheVars, notifyVars, xferVars, pathVars >>

\* _deliver_chunk lines 357-360 and 366-369: answer_document is called and awaited
AttemptBegin ==
    /\ d_pc = "attempt"
    /\ d_inflight' = d_inflight \cup { d_idx }
    /\ d_pc' = "sending"
    /\ UNCHANGED << d_file, d_chunk_size, d_total, d_width, d_idx, d_pos, d_chunk,
                    d_tries, d_wait, d_sent, d_error >>
    /\ UNCHANGED << judgeVars, cacheVars, notifyVars, xferVars, pathVars >>

\* _deliver_chunk lines 355-369 and the loop of _send_document_parts: the call
\* returns and the next part follows, or it raises TelegramRetryAfter inside
\* the retry loop and the task sleeps, or its exception leaves the function
AttemptEnd(outcomes, delays) ==
    /\ d_pc = "sending"
    /\ \E outcome \in outcomes, retry_after \in delays :
        LET attempt == Len(d_tries)
            advised == IF outcome = "retry_after" THEN retry_after ELSE 0
            gave_up == OnGiveUp(d_idx, d_total)
        IN  /\ d_tries' = Append(d_tries, [outcome |-> outcome, retry_after |-> advised])
            /\ d_inflight' = d_inflight \ { d_idx }
            /\ IF outcome = "ok"
               THEN /\ d_sent' = Append(d_sent, [name |-> PartName(d_idx, d_width),
                                                 bytes |-> d_chunk])
                    /\ d_pc' = IF d_idx = d_total THEN "done" ELSE "part"
                    /\ d_idx' = d_idx + 1
                    /\ UNCHANGED << d_wait, d_error >>
               ELSE IF MayRetry(attempt, outcome)
               THEN /\ d_wait' = Delay(retry_after)
                    /\ d_pc' = "sleep"
                    /\ UNCHANGED << d_sent, d_idx, d_error >>
               ELSE /\ d_pc' = gave_up.pc
                    /\ d_idx' = gave_up.idx
                    /\ d_error' = IF gave_up.raised THEN outcome ELSE d_error
                    /\ UNCHANGED << d_sent, d_wait >>
    /\ UNCHANGED << d_file, d_chunk_size, d_total, d_width, d_pos, d_chunk >>
    /\ UNCHANGED << judgeVars, cacheVars, notifyVars, xferVars, pathVars >>

\* line 364: asyncio.sleep returns, the next attempt follows
SleepEnd ==
    /\ d_pc = "sleep"
    /\ d_pc' = "attempt"
    /\ UNCHANGED << d_file, d_chunk_size, d_total, d_width, d_idx, d_pos, d_chunk,
                    d_tries, d_wait, d_sent, d_inflight, d_error >>
    /\ UNCHANGED << judgeVars, cacheVars, notifyVars, xferVars, pathVars >>

InitDelivery ==
    InitCoordinator({}) /\ AtStartUp /\ admin_left = 0 /\ CacheIdle /\ SendIdle /\ PathIdle /\ NotifyIdle /\ TransferIdle

NextDelivery ==
    \/ SendSubmissionFile(ArtifactSizes, ChunkSizes)
    \/ SendWhole
    \/ ReadPart
    \/ AttemptBegin
    \/ AttemptEnd(SendOutcomes, AdvisedDelays)
    \/ SleepEnd

(***************************************************************************)
(* SpecRegistry: scorers are registered while the modules are imported,    *)
(* then one upload is evaluated.                                           *)
(***************************************************************************)
RegisterSlugs == { <<"a">>, <<"A", " ">>, <<"b">> }
ScorerNames == { "first_track", "other" }

\* @auto_judge.register(track_slug) applied to a scorer at import time
RegisterScorer(slugs, names) ==
    /\ \A f \in Flows : pc[f] \in {"start", "off"}
    /\ Len(registered) < MaxRegistrations
    /\ \E slug \in slugs, func \in names :
        /\ registered' = Append(registered, [slug |-> slug, scorer |-> func])
        /\ scorers' = Register(scorers, slug, func)
    /\ UNCHANGED << pc, subs, flow_sub, archive, track, context, run, result, scorer,
                    results, judge_lock, locks_made, my_lock, locked, waiters, launched,
                    before, shown, notes, bot_bound, admin_left >>
    /\ UNCHANGED << cacheVars, notifyVars, xferVars, sendVars, pathVars >>

InitRegistry ==
    /\ InitCoordinator({1})
    /\ registered = <<>>
    /\ scorers = NoScorers
    /\ admin_left = 0
    /\ CacheIdle /\ SendIdle /\ PathIdle /\ NotifyIdle /\ TransferIdle

NextRegistry ==
    \/ RegisterScorer(RegisterSlugs, ScorerNames)
    \/ \E f \in Flows : CreateSubmission(f, JudgeArchives)
    \/ \E f \in Flows : ResolveContext(f, TrackSlugs)
    \/ \E f \in Flows : AcquireLock(f)
    \/ \E f \in Flows : ScorerDone(f, JudgeRuns)
    \/ \E f \in Flows : Persist(f)
    \/ \E f \in Flows : AuditCreate(f)
    \/ \E f \in Flows : ReturnHomeAndPop(f)

(***************************************************************************)
(* The handlers that plan, write, record and serve artifacts.               *)
(***************************************************************************)
\* teams.py add_team_slug lines 355-380 and the slug branch of the edit
\* handler, lines 561-566: the slug is taken only when it is valid
SetTeamSlug(texts) ==
    /\ \E t \in Teams, text \in texts :
        team_slug' = IF ValidSlug(NormalizeSlug(text))
                     THEN [team_slug EXCEPT ![t] = NormalizeSlug(text)]
                     ELSE team_slug
    /\ UNCHANGED << team_of, p_pc, p_plan, disk, rows, reads >>
    /\ UNCHANGED << judgeVars, cacheVars, notifyVars, xferVars, sendVars >>

\* receive_submission_document lines 185-187 and _handle_multipart_part lines
\* 398-419: the plan is made, and for a chunked upload the tmp directory
PreparePlan(c) ==
    /\ p_pc[c] = "idle"
    /\ LET team == team_of[c]
           plan == PrepareSubmissionPlan(team, team_slug[team], CountSubmissions(team, rows))
       IN  /\ p_plan' = [p_plan EXCEPT ![c] = plan]
           /\ \E kind \in {"single", "parts"} :
                p_pc' = [p_pc EXCEPT ![c] = IF plan.ok THEN kind ELSE "raised"]
    /\ UNCHANGED << team_of, team_slug, disk, rows, reads >>
    /\ UNCHANGED << judgeVars, cacheVars, notifyVars, xferVars, sendVars >>

PartPath(plan) == JoinPath(plan.tmp_dir, PathOf(Name("part")))

\* _handle_multipart_part lines 421-469: a part is downloaded into the tmp directory
StorePart(c) ==
    /\ p_pc[c] = "parts"
    /\ disk' = WriteFile(disk, PartPath(p_plan[c]), c)
    /\ p_pc' = [p_pc EXCEPT ![c] = "stored"]
    /\ UNCHANGED << team_of, team_slug, p_plan, rows, reads >>
    /\ UNCHANGED << judgeVars, cacheVars, notifyVars, xferVars, sendVars >>

\* receive_submission_document lines 201-208 and _assemble_and_submit_parts
\* lines 663-668: the artifact is written at dest_path, from the download or
\* from the part files
WriteArtifact(c) ==
    /\ p_pc[c] \in {"single", "stored"}
    /\ IF p_pc[c] = "stored" /\ ~Exists(PartPath(p_plan[c]), disk)
       THEN /\ disk' = RemoveFile(disk, p_plan[c].dest_path)
            /\ p_pc' = [p_pc EXCEPT ![c] = "failed"]
       ELSE /\ disk' = WriteFile(disk, p_plan[c].dest_path,
                                 IF p_pc[c] = "stored" THEN Content(disk, PartPath(p_plan[c]))
                                 ELSE c)
            /\ p_pc' = [p_pc EXCEPT ![c] = "written"]
    /\ UNCHANGED << team_of, team_slug, p_plan, rows, reads >>
    /\ UNCHANGED << judgeVars, cacheVars, notifyVars, xferVars, sendVars >>

\* what opening the record's file for evaluation adds to the files read
Evaluate(i, file_path, files) ==
    LET file == AutoFilePath(file_path, files)
    IN  IF file.ok THEN { [op |-> "evaluate", row |-> i, path |-> file.path] } ELSE {}

\* receive_submission_document lines 214-222 and _assemble_and_submit_parts
\* lines 675-694: the record is created with the plan's relative path and
\* evaluated; the part files are removed
CreateRecord(c) ==
    /\ p_pc[c] = "written"
    /\ rows' = Append(rows, [team |-> p_plan[c].team, file_path |-> p_plan[c].relative_path,
                             by |-> c])
    /\ reads' = reads \cup Evaluate(Len(rows) + 1, p_plan[c].relative_path, disk)
    /\ disk' = RemoveFile(disk, PartPath(p_plan[c]))
    /\ p_pc' = [p_pc EXCEPT ![c] = "done"]
    /\ UNCHANGED << team_of, team_slug, p_plan >>
    /\ UNCHANGED << judgeVars, cacheVars, notifyVars, xferVars, sendVars >>

\* SubmissionService.create_submission lines 78-91 called with any payload: the
\* record is stored with the file_path given, and auto_evaluate_create
\* evaluates it
ServiceCreate(paths) ==
    /\ \A i \in 1..Len(rows) : rows[i].by # 0
    /\ \E file_path \in paths :
        /\ rows' = Append(rows, [team |-> "t2", file_path |-> file_path, by |-> 0])
        /\ reads' = reads \cup Evaluate(Len(rows) + 1, file_path, disk)
    /\ UNCHANGED << team_of, team_slug, p_pc, p_plan, disk >>
    /\ UNCHANGED << judgeVars, cacheVars, notifyVars, xferVars, sendVars >>

\* submissions_download lines 468-484: the record's path is checked, and the
\* file is sent when it is inside the data directory and exists
Download ==
    /\ \E i \in 1..Len(rows) :
        LET file == SubmissionFilePath(rows[i].file_path)
        IN  reads' = reads \cup
                IF file.ok /\ Exists(file.path, disk)
                THEN { [op |-> "download", row |-> i, path |-> file.path] }
                ELSE { [op |-> "refused", row |-> i, path |-> file.path] }
    /\ UNCHANGED << team_of, team_slug, p_pc, p_plan, disk, rows >>
    /\ UNCHANGED << judgeVars, cacheVars, notifyVars, xferVars, sendVars >>

(***************************************************************************)
(* SpecPaths: two users upload while an administrator edits team slugs and *)
(* downloads artifacts, and one record is created through the service with *)
(* a path of the caller's choice.                                          *)
(***************************************************************************)
InitPaths ==
    /\ InitCoordinator({}) /\ AtStartUp /\ admin_left = 0
    /\ CacheIdle /\ SendIdle /\ NotifyIdle /\ TransferIdle
    /\ team_of \in { m \in [Uploaders -> Teams] : m[1] = "t1" }
    /\ team_slug = [t \in Teams |-> << "a", "a", "a" >>]
    /\ p_pc = [c \in Uploaders |-> "idle"]
    /\ p_plan = [c \in Uploaders |-> NoPlanYet]
    /\ disk = OtherFiles
    /\ rows = <<>>
    /\ reads = {}

NextPaths ==
    \/ SetTeamSlug(SlugTexts)
    \/ \E c \in Uploaders : PreparePlan(c)
    \/ \E c \in Uploaders : StorePart(c)
    \/ \E c \in Uploaders : WriteArtifact(c)
    \/ \E c \in Uploaders : CreateRecord(c)
    \/ ServiceCreate(PayloadPaths)
    \/ Download

SpecPaths == InitPaths /\ [][NextPaths]_vars

(***************************************************************************)
(* SpecLoop: two uploads evaluated by the coordinator while, on the same   *)
(* event loop, an administrator rates a submission and another chat sends  *)
(* the parts of a chunked upload.                                          *)
(***************************************************************************)
\* Variant that runs the scorer on the event loop itself
RunsOnLoopAll(step) == TRUE

\* _score_submission lines 65-66: _evaluate_sync, with the container run inside,
\* is awaited through asyncio.to_thread; every other step of a handler is run
\* by the event loop
RunsOnLoop(step) == step # "scoring"

\* the event loop can run a step of a task: no run in progress occupies it
LoopFree == \A f \in Flows : pc[f] = "scoring" => ~RunsOnLoop("scoring")

LoopTexts == { t \in TotalTexts : t.word = "int" /\ t.n = 3 }
LoopParts == {1}
LoopArchives == { a \in JudgeArchives : a.valid }
LoopRuns == { r \in JudgeRuns : r.kind = "exit0" }

LoopUpload(f) ==
    LoopFree /\ (CreateSubmission(f, LoopArchives) \/ ResolveContext(f, {FirstTrack}))
LoopLock(f) == LoopFree /\ AcquireLock(f)
LoopWakeUp(f) == LoopFree /\ WakeUp(f)
LoopPersist(f) == LoopFree /\ (Persist(f) \/ AuditCreate(f))
LoopPop(f) == LoopFree /\ ReturnHomeAndPop(f)
LoopRate == LoopFree /\ AdminRate
LoopTotal == LoopFree /\ Quiet /\ SetTotal(LoopTexts)
LoopPart == LoopFree /\ ReceiveDocument(1, PartDocs(LoopParts), {"ok"}, FALSE)
LoopDownload == LoopFree /\ DownloadEnd(1, {TRUE}, FALSE)

InitLoop ==
    InitCoordinator({1, 2}) /\ AtStartUp /\ admin_left = 1 /\ CacheIdle /\ SendIdle /\ PathIdle /\ NotifyIdle
    /\ InSubmitMode("waiting_total")

NextLoop ==
    \/ \E f \in Flows : LoopUpload(f)
    \/ \E f \in Flows : LoopLock(f)
    \/ \E f \in Flows : LoopWakeUp(f)
    \/ \E f \in Flows : ScorerDone(f, LoopRuns)
    \/ \E f \in Flows : LoopPersist(f)
    \/ \E f \in Flows : LoopPop(f)
    \/ LoopRate
    \/ LoopTotal
    \/ LoopPart
    \/ LoopDownload

SpecLoop == InitLoop /\ [][NextLoop]_vars

(***************************************************************************)
(* SpecFrame: the submission table while an upload is evaluated, an        *)
(* administrator rates, a chunked upload is received and assembled and an  *)
(* artifact is delivered.  The table already holds one rated record.       *)
(***************************************************************************)
FrameArchives == { a \in JudgeArchives : a.valid }
FrameRuns == { r \in JudgeRuns : r.kind = "exit0" }
FrameTexts == { t \in TotalTexts : t.word = "int" /\ t.n = 2 }

\* a record of an earlier upload that the coordinator accepted with a value
RatedSubmission == DbUpdateSubmission(NewSubmission("t2"), SubmissionUpdate(2, 1, "accepted", NoTitle))

InitFrame ==
    /\ pc = [f \in Flows |-> IF f = 1 THEN "start" ELSE "off"]
    /\ subs = [i \in SubIds |-> IF i = 2 THEN RatedSubmission ELSE NoSub]
    /\ flow_sub = [f \in Flows |-> 0]
    /\ archive = [f \in Flows |-> NoArchive]
    /\ track = [f \in Flows |-> <<>>]
    /\ context = [f \in Flows |-> "none"]
    /\ run = [f \in Flows |-> NoRun]
    /\ result = [f \in Flows |-> NoResult]
    /\ scorer = [f \in Flows |-> NoScorer]
    /\ results = [i \in SubIds |-> NoResult]
    /\ judge_lock = NoLock
    /\ locks_made = 0
    /\ my_lock = [f \in Flows |-> NoLock]
    /\ locked = [l \in LockIds |-> FALSE]
    /\ waiters = [l \in LockIds |-> <<>>]
    /\ launched = [f \in Flows |-> FALSE]
    /\ before = [f \in Flows |-> NoSub]
    /\ shown = [f \in Flows |-> <<>>]
    /\ notes = [i \in SubIds |-> <<>>]
    /\ bot_bound = TRUE
    /\ admin_left = 1
    /\ AtStartUp /\ CacheIdle /\ SendIdle /\ PathIdle /\ NotifyIdle
    /\ InSubmitMode("waiting_total")

NextFrame ==
    \/ \E f \in Flows : CreateSubmission(f, FrameArchives)
    \/ \E f \in Flows : ResolveContext(f, {FirstTrack})
    \/ \E f \in Flows : AcquireLock(f)
    \/ \E f \in Flows : ScorerDone(f, FrameRuns)
    \/ \E f \in Flows : Persist(f)
    \/ \E f \in Flows : AuditCreate(f)
    \/ \E f \in Flows : ReturnHomeAndPop(f)
    \/ AdminRate
    \/ Quiet /\ SetTotal(FrameTexts)
    \/ ReceiveDocument(1, PartDocs({1, 2}), {"ok"}, FALSE)
    \/ DownloadEnd(1, {TRUE}, FALSE)
    \/ Assemble(1, {TRUE})
    \/ CopyPart(1, {TRUE})
    \/ CreateFromParts(1, CreateResults)
    \/ SendSubmissionFile({2}, {1})
    \/ SendWhole
    \/ ReadPart
    \/ AttemptBegin
    \/ AttemptEnd({"ok", "other"}, {0})

SpecFrame == InitFrame /\ [][NextFrame]_vars

(***************************************************************************)
(* SpecInterleave: the part messages of one chat handled as concurrent     *)
(* tasks; each handler reads the FSM data once when its message arrives    *)
(* and writes the count and the part list when its download has ended.     *)
(***************************************************************************)
InterleaveTexts == { t \in TotalTexts : t.word = "int" /\ t.n = 3 }
InterleaveParts == {1, 2, 3}

InitInterleave ==
    InitCoordinator({}) /\ AtStartUp /\ admin_left = 0 /\ CacheIdle /\ SendIdle /\ PathIdle /\ NotifyIdle
    /\ InSubmitMode("waiting_total")

NextInterleave ==
    \/ SetTotal(InterleaveTexts)
    \/ \E h \in Handlers : ReceiveDocument(h, PartDocs(InterleaveParts), {"ok"}, FALSE)
    \/ \E h \in Handlers : DownloadEnd(h, BOOLEAN, FALSE)
    \/ \E h \in Handlers : Assemble(h, {TRUE})
    \/ \E h \in Handlers : CopyPart(h, {TRUE})
    \/ \E h \in Handlers : CreateFromParts(h, {"saved"})

SpecInterleave == InitInterleave /\ [][NextInterleave]_vars

(***************************************************************************)
(* SpecArtifact: single and chunked uploads of one chat with every way the *)
(* download, the assembly and create_submission can end.                   *)
(***************************************************************************)
ArtifactTexts == { t \in TotalTexts : t.word = "int" /\ t.n = 2 }
ArtifactDocs == PartDocs({1, 2}) \cup { d \in OtherDocs : d.kind = "zip" }

InitArtifact ==
    InitCoordinator({}) /\ AtStartUp /\ admin_left = 0 /\ CacheIdle /\ SendIdle /\ PathIdle /\ NotifyIdle
    /\ InSubmitMode("none")

NextArtifact ==
    \/ Quiet /\ fsm # "collecting" /\ StartMultipart
    \/ Quiet /\ SetTotal(ArtifactTexts)
    \/ Len(submitted) < MaxRecords /\ ReceiveDocument(1, ArtifactDocs, {"ok"}, FALSE)
    \/ DownloadEnd(1, BOOLEAN, FALSE)
    \/ Assemble(1, BOOLEAN)
    \/ CopyPart(1, BOOLEAN)
    \/ CreateFromParts(1, CreateOutcomes)
    \/ SingleFinish(1, SingleOutcomes \cup CreateOutcomes)

SpecArtifact == InitArtifact /\ [][NextArtifact]_vars
Spec == InitJudge /\ [][NextJudge]_vars
SpecRegistry == InitRegistry /\ [][NextRegistry]_vars
SpecDelivery == InitDelivery /\ [][NextDelivery]_vars
SpecSession == InitSession /\ [][NextSession]_vars
SpecEval == InitEval /\ [][NextEval]_vars

\* The coordinator alone, from the upload to the end of the evaluation
LiveArchives == { a \in JudgeArchives : a.valid }

NextLive ==
    \/ \E f \in Flows : CreateSubmission(f, LiveArchives)
    \/ \E f \in Flows : ResolveContext(f, JudgeSlugs)
    \/ \E f \in Flows : AcquireLock(f)
    \/ \E f \in Flows : WakeUp(f)
    \/ \E f \in Flows : ScorerDone(f, JudgeRuns)
    \/ \E f \in Flows : Persist(f)

\* Spec with the scheduling of the event loop: a task whose lock future is set
\* is resumed, a worker thread returns (the container exits or subprocess.run
\* kills it after EXEC_TIMEOUT), and the database call of the persist step returns
JudgeFairness ==
    \A f \in Flows :
        /\ WF_vars(WakeUp(f))
        /\ WF_vars(ScorerDone(f, JudgeRuns))
        /\ WF_vars(Persist(f))
SpecLive == InitJudge /\ [][NextLive]_vars /\ JudgeFairness
SpecCache == InitCache /\ [][NextCache]_vars
SpecNotify == InitNotify /\ [][NextNotify]_vars
SpecTransfer == InitTransfer /\ [][NextTransfer]_vars
SpecScenario == InitScenario /\ [][NextScenario]_vars

(***************************************************************************)
(* Properties.                                                             *)
(***************************************************************************)
InScorer == { f \in Flows : pc[f] = "scoring" }
Holding(l) == { f \in Flows : pc[f] \in {"scoring", "persist"} /\ my_lock[f] = l }

\* C1: at every instant at most one scorer execution is in progress; a flow
\* whose scorer runs holds the one process-wide judge lock, which is locked,
\* and no lock object ever has two holders.
C1_OneScorerInFlight ==
    /\ Cardinality(InScorer) <= 1
    /\ \A f \in InScorer :
        /\ judge_lock # NoLock
        /\ my_lock[f] = judge_lock
        /\ locked[judge_lock]
    /\ \A l \in LockIds : Cardinality(Holding(l)) <= 1
    /\ locks_made <= 1

\* C1 witness: a scorer runs for one flow while another flow queues on the lock
C1_Witness ==
    \E f \in Flows, g \in Flows :
        /\ f # g
        /\ pc[f] = "scoring"
        /\ pc[g] = "waiting"
        /\ waiters[judge_lock] = <<g>>

\* C2: in the collecting state with the base fixed, a part whose number is not
\* base + received is answered "expected N, got M" with N = base + received and
\* M its number; the FSM state and data (received count, part list) stay as
\* they were, no download starts and no file is written.
C2_OutOfOrderRejected ==
    [][ ( /\ h_pc[1] = "idle"
          /\ event'.kind = "part"
          /\ ui = "submit"
          /\ fsm = "collecting"
          /\ data.expected # 0
          /\ data.first_part # NoPart
          /\ event'.n # data.first_part + data.received ) =>
            /\ reply' = WrongOrder(data.first_part + data.received, event'.n)
            /\ data' = data
            /\ fsm' = fsm
            /\ h_pc'[1] = "idle"
            /\ tmp_files' = tmp_files
            /\ dest' = dest ]_vars

\* C2 witness: with base 1 and one part stored, part 3 was answered
\* "expected 2, got 3"
C2_Witness ==
    /\ fsm = "collecting"
    /\ data.first_part = 1
    /\ data.received = 1
    /\ data.parts = <<1>>
    /\ event = [kind |-> "part", n |-> 3, word |-> NoWord]
    /\ reply = WrongOrder(2, 3)
    /\ h_pc[1] = "idle"

\* the bytes of parts b, b+1, ..., b+n-1 one after the other
InOrderBytes(b, n) == [i \in 1..n |-> b + i - 1]
AllSent == clean /\ sent = declared /\ h_pc[1] # "download"
NotAllSent == clean /\ (sent < declared \/ (sent = declared /\ h_pc[1] = "download"))

\* C3: when parts b, b+1, ..., b+N-1 (b 0 or 1, N the declared total) were sent
\* one after the other and every download worked, the parts are assembled
\* exactly once and never before the last part is stored; the assembled
\* destination and the artifact of the created submission are the bytes of
\* those N parts in index order; while the copy runs the destination holds the
\* parts copied so far, in that order.
C3_InOrderAssembly ==
    /\ NotAllSent => (assemblies = 0 /\ submitted = <<>> /\ h_pc[1] \in {"idle", "download"})
    /\ AllSent =>
        /\ declared \in MinParts..MaxParts
        /\ first_sent \in FirstPartNumbers
        /\ h_pc[1] = "assemble" =>
            /\ assemblies = 0
            /\ h_data[1].parts = InOrderBytes(first_sent, declared)
        /\ h_pc[1] # "assemble" => assemblies = 1
        /\ h_pc[1] = "create" =>
            dest = [exists |-> TRUE, bytes |-> InOrderBytes(first_sent, declared)]
        /\ h_pc[1] = "copy" =>
            dest = [exists |-> TRUE,
                    bytes |-> SubSeq(InOrderBytes(first_sent, declared), 1, h_data[1].copied)]
        /\ (h_pc[1] \notin {"assemble", "copy"} /\ dest.exists) =>
            dest.bytes = InOrderBytes(first_sent, declared)
        /\ submitted # <<>> =>
            /\ submitted = << InOrderBytes(first_sent, declared) >>
            /\ dest.exists

\* C3 witness: twenty parts numbered from 1 were sent and the submission made
\* from them exists
C3_Witness ==
    /\ AllSent
    /\ declared = MaxParts
    /\ first_sent = 1
    /\ assemblies = 1
    /\ Len(submitted) = 1
    /\ Len(submitted[1]) = MaxParts

Scenario == <<1, 3, 2, 3>>
SentNumbers == [i \in 1..Len(trace) |-> trace[i].n]
IsPrefix(s, t) == Len(s) <= Len(t) /\ \A i \in 1..Len(s) : s[i] = t[i]
NoDownloadFailed == \A i \in 1..Len(trace) : trace[i].verdict # "download_failed"
Taken(i) == trace[i].verdict \in {"download", "stored", "download_failed"}
StoredBefore(j) == Cardinality({ i \in 1..(j - 1) : trace[i].verdict = "stored" })
FirstOfSession(j) == \A i \in 1..(j - 1) : trace[i].n \notin FirstPartNumbers

\* the number due when the j-th part of the trace arrives, from the trace alone
Due(j) ==
    IF FirstOfSession(j)
    THEN (IF trace[j].n \in FirstPartNumbers THEN trace[j].n ELSE NoPart)
    ELSE LET first == CHOOSE i \in 1..(j - 1) :
                        /\ trace[i].n \in FirstPartNumbers
                        /\ FirstOfSession(i)
         IN  trace[first].n + StoredBefore(j)

\* C4: with total 3 and the parts sent in the order 1, 3, 2, 3, part 1 is taken,
\* the first part 3 is answered "expected 2, got 3" and the received count
\* stays 1, part 2 is taken, the second part 3 is taken and starts the assembly,
\* and the artifact is part 1, part 2, part 3.  In any session, a part that was
\* rejected for its order is taken when it arrives again as the due part.
C4_RejectedPartAcceptedLater ==
    /\ (declared = 3 /\ IsPrefix(SentNumbers, Scenario) /\ NoDownloadFailed) =>
        /\ Len(trace) >= 1 => Taken(1)
        /\ (Len(trace) >= 1 /\ trace[1].verdict = "stored") => trace[1].received = 1
        /\ Len(trace) >= 2 =>
            /\ trace[2].verdict = "wrong_order"
            /\ trace[2].expected = 2
            /\ trace[2].received = 1
        /\ Len(trace) >= 3 => Taken(3)
        /\ (Len(trace) >= 3 /\ trace[3].verdict = "stored") => trace[3].received = 2
        /\ Len(trace) = 4 =>
            /\ Taken(4)
            /\ trace[4].verdict = "stored" =>
                /\ h_pc[1] \in {"assemble", "copy", "create", "idle"}
                /\ h_pc[1] # "assemble" => assemblies = 1
                /\ h_pc[1] = "create" => dest = [exists |-> TRUE, bytes |-> <<1, 2, 3>>]
                /\ (h_pc[1] # "copy" /\ dest.exists) => dest.bytes = <<1, 2, 3>>
                /\ submitted # <<>> => submitted = << <<1, 2, 3>> >>
        /\ Len(trace) < 4 => assemblies = 0
    /\ \A i \in 1..Len(trace), j \in 1..Len(trace) :
        ( /\ i < j
          /\ trace[i].verdict = "wrong_order"
          /\ trace[j].n = trace[i].n
          /\ trace[j].n = Due(j) ) => Taken(j)

\* C4 witness: total 3, the parts sent were 1, 3, 2, 3, and the submission made
\* of parts 1, 2, 3 exists
C4_Witness ==
    /\ declared = 3
    /\ SentNumbers = Scenario
    /\ trace[2].verdict = "wrong_order"
    /\ trace[4].verdict = "stored"
    /\ submitted = << <<1, 2, 3>> >>

\* C5: a pop returns what was stored and removes it, so a pop right after a pop
\* of the same id returns absent; a store replaces the entry of its id and
\* touches no other; a pop of an id without an entry changes nothing.
C5_PopOnce ==
    /\ last_op.op = "pop" =>
        /\ last_op.ret = cache_was[last_op.id]
        /\ results = [cache_was EXCEPT ![last_op.id] = NoResult]
        /\ cache_was[last_op.id] = NoResult => results = cache_was
    /\ last_op.op = "put" =>
        /\ results[last_op.id] = last_op.arg
        /\ \A i \in SubIds \ {last_op.id} : results[i] = cache_was[i]
    /\ (last_op.op = "pop" /\ prev_op.op = "pop" /\ prev_op.id = last_op.id) =>
        last_op.ret = NoResult
    /\ (last_op.op = "pop" /\ prev_op.op = "put" /\ prev_op.id = last_op.id) =>
        last_op.ret = prev_op.arg

\* C5 witness: an outcome was popped and the same id is popped again
C5_Witness ==
    /\ last_op.op = "pop"
    /\ prev_op.op = "pop"
    /\ prev_op.id = last_op.id
    /\ prev_op.ret # NoResult
    /\ last_op.ret = NoResult

\* C6: once create_submission has returned to the upload flow, the outcome of
\* the evaluation is in the cache under the submission's id; the flow's pop
\* returns it, the flow shows it exactly once, it shows no outcome of another
\* submission, and the entry is gone afterwards.
C6_OutcomeSurfacedOnce ==
    \A f \in Flows :
        /\ (pc[f] = "home" /\ result[f] # NoResult) => results[flow_sub[f]] = result[f]
        /\ (pc[f] = "done" /\ result[f] # NoResult) =>
            shown[f] = << [id |-> flow_sub[f], outcome |-> result[f]] >>
        /\ Len(shown[f]) <= 1
        /\ \A i \in 1..Len(shown[f]) : shown[f][i].id = flow_sub[f]
        /\ pc[f] = "done" => results[flow_sub[f]] = NoResult

\* C6 witness: two flows have each shown the outcome of their own submission
C6_Witness ==
    \E f \in Flows, g \in Flows :
        /\ f # g
        /\ pc[f] = "done" /\ pc[g] = "done"
        /\ shown[f] # <<>> /\ shown[g] # <<>>
        /\ shown[f][1].outcome # shown[g][1].outcome

NotifyDone == u_env # NoEnv

\* C7: when status, value and title of the updated record all equal the
\* snapshot taken before the update, the call sends no message.
C7_NoMessageWhenUnchanged ==
    ( /\ NotifyDone
      /\ u_prev # NoSub
      /\ u_prev.status = u_updated.status
      /\ u_prev.value = u_updated.value
      /\ u_prev.title = u_updated.title ) => u_sent = <<>>

\* C7 witness: an update that rewrites the status the record already has went
\* through the notify step with every collaborator working
C7_Witness ==
    /\ NotifyDone
    /\ u_env.fault = "none"
    /\ u_prev # NoSub
    /\ u_prev = u_updated
    /\ u_payload.status = u_prev.status
    /\ u_sent = <<>>

\* C8: when the updated record's status differs from the snapshot and the owner
\* can be reached, the call sends exactly one message and it names the old and
\* the new status; no call sends two messages.
C8_OneMessageOnStatusChange ==
    /\ Len(u_sent) <= 1
    /\ ( /\ NotifyDone
         /\ u_env.fault = "none"
         /\ u_env.bound
         /\ u_prev # NoSub
         /\ u_prev.status # u_updated.status ) =>
            /\ Len(u_sent) = 1
            /\ u_sent[1].status_old = u_prev.status
            /\ u_sent[1].status_new = u_updated.status

\* C8 witness: status and value both changed and one message was sent
C8_Witness ==
    /\ NotifyDone
    /\ u_env.fault = "none"
    /\ u_prev # NoSub
    /\ u_prev.status # u_updated.status
    /\ u_prev.value # u_updated.value
    /\ Len(u_sent) = 1

\* C9: whatever fails in the notify step, the step neither raises nor writes
\* the record, and the call goes on to return the record the update wrote.
C9_NotifyFailureDoesNotFailUpdate ==
    [][ /\ u_pc = "notify" =>
            /\ u_pc' = "audit" \/ u_pc' = "notify"
            /\ subs' = subs \/ u_pc' = "notify"
            /\ u_updated' = u_updated
        /\ (u_pc = "audit" /\ u_pc' = "returned") =>
            /\ u_ret'.rec = u_updated
            /\ u_ret'.state = "returned" ]_vars

\* C9 witness: the send raised an exception of another kind and the call
\* returned the updated record
C9_Witness ==
    /\ u_pc = "returned"
    /\ u_env.fault = "send_raises"
    /\ u_sent # <<>>
    /\ u_ret.rec = u_updated

\* the workspace after the single top-level folder, if any, has been flattened
DeNested(zip) == IF Wrapped(zip.files) THEN Flatten(zip.files).files ELSE zip.files
NoEntryAtRoot(zip) == zip.valid /\ <<"main.py">> \notin DeNested(zip)

\* C10: for a workspace without main.py at its root the scorer's worker
\* returns status error and success false without a value, no container is
\* launched, and the update persisted for it leaves value and title as they
\* were and sets at most the status, to error.
C10_EntryPointMissing ==
    [][ \A f \in Flows :
          /\ (pc[f] = "scoring" /\ pc'[f] = "persist" /\ NoEntryAtRoot(archive[f])) =>
                /\ result'[f].status = "error"
                /\ ~result'[f].success
                /\ result'[f].value = NoValue
                /\ ~launched'[f]
          /\ (pc[f] = "persist" /\ NoEntryAtRoot(archive[f])) =>
                /\ result[f].status \in {"error", NoStatus}
                /\ ~result[f].success
                /\ result[f].value = NoValue
                /\ ~launched[f]
                /\ ~launched'[f]
                /\ pc'[f] = "audit" =>
                    /\ subs'[flow_sub[f]].value = subs[flow_sub[f]].value
                    /\ subs'[flow_sub[f]].title = subs[flow_sub[f]].title
                    /\ subs'[flow_sub[f]].status \in {"error", subs[flow_sub[f]].status} ]_vars

\* C10 witness: an administrator had given the submission a value, the archive
\* holds main.py only below a second folder, and the persisted update set the
\* status to error and kept the value
C10_Witness ==
    \E f \in Flows :
        /\ pc[f] = "audit"
        /\ archive[f].files = {<<"d", "e", "main.py">>}
        /\ before[f].value # NoValue
        /\ before[f].status = "accepted"
        /\ subs[flow_sub[f]].status = "error"
        /\ subs[flow_sub[f]].value = before[f].value

\* a flow whose container exited with 0 and left an output.csv that was scored
Scored(f) ==
    /\ launched[f]
    /\ run[f].kind = "exit0"
    /\ run[f].output = "rows"
    /\ run[f].input_kept

\* C11: a run that exits with 0 and has k correct rows of n yields the status
\* accepted, a value v with k <= v < k + 1 and a message with "k/n", and once
\* the outcome is persisted the Submission has the status accepted and a value
\* in [k, k + 1).
C11_ScoreWithinUnit ==
    [][ \A f \in Flows :
          (pc[f] = "persist" /\ pc'[f] = "audit" /\ Scored(f) /\ result'[f].success) =>
            /\ result'[f].status = "accepted"
            /\ result'[f].value >= run[f].correct * ValueUnit
            /\ result'[f].value < (run[f].correct + 1) * ValueUnit
            /\ result'[f].message.correct = run[f].correct
            /\ result'[f].message.total = MaxRows
            /\ subs'[flow_sub[f]].status = "accepted"
            /\ subs'[flow_sub[f]].value >= run[f].correct * ValueUnit
            /\ subs'[flow_sub[f]].value < (run[f].correct + 1) * ValueUnit ]_vars

\* a text arrives while the total is awaited
TotalTextStep == ui = "submit" /\ fsm = "waiting_total" /\ event'.kind = "text"
TextIsTotal == event'.word \in IntForms /\ event'.n >= MinParts /\ event'.n <= MaxParts
Collecting(total) == [ClearedData EXCEPT !.expected = total]

\* C12 as stated: while the total is awaited, a text moves the session to
\* collecting (received 0, no parts) if and only if it is an integer in
\* [2, 20]; any other text re-prompts and leaves the session as it was.
C12_OnlyTotalChangesState ==
    [][ TotalTextStep =>
          IF TextIsTotal
          THEN fsm' = "collecting" /\ data' = Collecting(event'.n)
          ELSE fsm' = fsm /\ data' = data /\ reply' = Answer("invalid_total") ]_vars

\* C12 amended: while the total is awaited, a text moves the session to
\* collecting (received 0, no parts, no base) if and only if it is an integer
\* in [2, 20]; the words cancel and stop end the session; any other text
\* re-prompts and leaves the session as it was.
C12_TotalOrCancel ==
    [][ TotalTextStep =>
          /\ (fsm' = "collecting") <=> TextIsTotal
          /\ TextIsTotal =>
                /\ data' = Collecting(event'.n)
                /\ data'.received = 0 /\ data'.parts = <<>> /\ data'.first_part = NoPart
          /\ event'.word \in CancelWords =>
                fsm' = "none" /\ data' = ClearedData /\ reply' = Answer("cancelled")
          /\ (~TextIsTotal /\ event'.word \notin CancelWords) =>
                fsm' = fsm /\ data' = data /\ reply' = Answer("invalid_total")
          /\ UNCHANGED << ui, tmp_files, dest, submitted, h_pc >> ]_vars

\* C12 witness: the total 21 was refused and the total is still awaited
C12_Witness ==
    /\ fsm = "waiting_total"
    /\ event = [kind |-> "text", n |-> MaxParts + 1, word |-> "int"]
    /\ reply = Answer("invalid_total")
    /\ data = ClearedData

\* a part arrives while parts are collected and no handler is at work
PartArrives ==
    /\ ui = "submit"
    /\ fsm = "collecting"
    /\ h_pc[1] = "idle"
    /\ event'.kind = "part"

\* C13: while parts are collected and no base is fixed, nothing has been
\* received; a part numbered 0 or 1 is not refused for its number and, the
\* session going on, its number is the base; a part with any other number is
\* answered "expected 0 or 1" and state, data and files stay as they were.  A
\* base once fixed is the same after every step within the session.
C13_BaseFixedByFirstPart ==
    [][ /\ (fsm = "collecting" /\ data.first_part = NoPart) =>
              data.received = 0 /\ data.parts = <<>>
        /\ (PartArrives /\ data.first_part = NoPart /\ event'.n \in {0, 1}) =>
              /\ reply'.kind # "wrong_order"
              /\ fsm' = "collecting" => data'.first_part = event'.n
              /\ fsm' # "collecting" => reply' = Answer("plan_refused")
        /\ (PartArrives /\ data.first_part = NoPart /\ event'.n \notin {0, 1}) =>
              /\ reply' = WrongOrder(NoPart, event'.n)
              /\ data' = data
              /\ fsm' = fsm
              /\ h_pc'[1] = "idle"
              /\ tmp_files' = tmp_files
        /\ (fsm = "collecting" /\ fsm' = "collecting" /\ data.first_part # NoPart) =>
              data'.first_part = data.first_part ]_vars

\* C13 witness: part 0 fixed the base, and parts 0 and 1 were stored under it
\* with more parts to come
C13_Witness ==
    /\ fsm = "collecting"
    /\ data.first_part = 0
    /\ data.parts = <<0, 1>>
    /\ data.received = 2
    /\ data.expected > 2

\* C14: the destination path holds a file only once the whole concatenation
\* has been written: while the parts are copied no partial artifact is there,
\* and after a failed concatenation no file is there.
C14_NoPartialArtifact ==
    /\ (h_pc[1] = "copy" /\ dest.exists) =>
          dest.bytes = Concatenate(h_data[1].parts, tmp_files)
    /\ reply = Answer("assemble_failed") => ~dest.exists

\* the handler ends on a terminal error of the session
AssemblyFails == h_pc[1] \in {"assemble", "copy"} /\ reply' = Answer("assemble_failed")
CreationFails == h_pc[1] = "create" /\ reply' = Answer("error")

\* C15: when the assembly fails with an I/O error, or the Submission record
\* cannot be created after it, the session is gone: the conversation is idle
\* and expected count, received count, base and part list are cleared.
C15_TerminalErrorClearsSession ==
    [][ (AssemblyFails \/ CreationFails) =>
          fsm' = "none" /\ data' = ClearedData ]_vars

\* the assembled artifact is saved as a submission
Saved == h_pc[1] = "create" /\ reply' = Answer("saved")

\* C16: when the assembled artifact is saved, every part file of the list is
\* deleted and the session's tmp directory is removed, one Submission record
\* is added and it points at the assembled artifact, which stays in place, and
\* the session is cleared; no step adds a record without clearing the session,
\* so no second record comes from the same session.
C16_SuccessfulAssembly ==
    [][ /\ Saved =>
              /\ \A i \in 1..Len(h_data[1].parts) : ~tmp_files'[h_data[1].parts[i]].exists
              /\ ~workspace'
              /\ submitted' = Append(submitted, dest.bytes)
              /\ dest.exists /\ dest' = dest
              /\ fsm' = "none" /\ data' = ClearedData
        /\ Len(submitted') <= Len(submitted) + 1
        /\ Len(submitted') > Len(submitted) => (fsm' = "none" /\ data' = ClearedData) ]_vars

(***************************************************************************)
(* C17                                                                     *)
(***************************************************************************)
EndsEvaluation(f) ==
    pc[f] \in {"lock", "waiting", "scoring", "persist"} /\ pc'[f] = "audit"

\* C17: every step that ends an evaluation (no scorer, a scorer returning
\* nothing, an outcome persisted, a scorer that raised, a failed write) leaves
\* the lock of the flow released, and every flow waiting for the lock
\* eventually gets it.
C17_LockReleasedAndAcquired ==
    /\ [][ \A f \in Flows : EndsEvaluation(f) => ~locked'[my_lock'[f]] ]_vars
    /\ \A f \in Flows : (pc[f] = "waiting") ~> (pc[f] \in {"scoring", "persist", "audit"})

\* a flow is first in the queue of a lock that was released by an evaluation
\* which ended with success=False
C17_Witness ==
    \E f, g \in Flows :
        /\ pc[f] = "waiting"
        /\ waiters[my_lock[f]] # <<>>
        /\ Head(waiters[my_lock[f]]) = f
        /\ ~locked[my_lock[f]]
        /\ my_lock[g] = my_lock[f]
        /\ pc[g] = "audit"
        /\ result[g] = FailedResult

(***************************************************************************)
(* C18                                                                     *)
(***************************************************************************)
InCoordinator(f) == pc[f] \in {"context", "lock", "waiting", "scoring", "persist"}
SandboxFailed(f) == ~launched[f] \/ run[f].kind # "exit0"

\* C18: once the record is created, no step of the automatic evaluation
\* (context resolution, waiting for the lock, the scorer, the sandbox run, the
\* write of the outcome) ends the flow with an exception: the coordinator goes
\* on until it returns the created record, which is still in the table; and an
\* evaluation in which the scorer raised, no container was launched or the
\* container did not exit with 0 is stored as an outcome with success false.
C18_FailuresStayInside ==
    [][ \A f \in Flows :
          InCoordinator(f) =>
            /\ pc'[f] # "failed"
            /\ InCoordinator(f)' \/ pc'[f] = "audit"
            /\ flow_sub'[f] = flow_sub[f]
            /\ subs'[flow_sub[f]] # NoSub
            /\ (pc[f] = "persist" /\ pc'[f] = "audit") =>
                  /\ results'[flow_sub[f]] = result'[f]
                  /\ result'[f] # NoResult
                  /\ SandboxFailed(f) => ~results'[flow_sub[f]].success ]_vars

\* the container of a flow timed out, the write of the error status failed as
\* well, and the coordinator has returned the created record
C18_Witness ==
    \E f \in Flows :
        /\ pc[f] = "audit"
        /\ launched[f]
        /\ run[f].kind = "timeout"
        /\ result[f] = FailedResult
        /\ results[flow_sub[f]] = FailedResult
        /\ subs[flow_sub[f]] # NoSub

(***************************************************************************)
(* C19                                                                     *)
(***************************************************************************)
Carries(outcome) == outcome.value # NoValue \/ outcome.status # NoStatus
WrittenExactly(rec, outcome) ==
    [rec EXCEPT !.value = IF outcome.value # NoValue THEN outcome.value ELSE @,
                !.status = IF outcome.status # NoStatus THEN outcome.status ELSE @]

\* C19: the persist step of an outcome that carries a value or a status either
\* writes exactly the carried fields to the Submission and stores the outcome
\* as it is, or, when the write fails, leaves the Submission as it was and
\* stores an outcome with success false.
C19_WriteOrUnchanged ==
    [][ \A f \in Flows :
          (pc[f] = "persist" /\ pc'[f] = "audit" /\ Carries(result[f])) =>
            \/ /\ result'[f] = result[f]
               /\ results'[flow_sub[f]] = result[f]
               /\ subs'[flow_sub[f]] = WrittenExactly(subs[flow_sub[f]], result[f])
            \/ /\ ~result'[f].success
               /\ result'[f] = FailedResult
               /\ results'[flow_sub[f]] = FailedResult
               /\ subs'[flow_sub[f]] = subs[flow_sub[f]] ]_vars

(***************************************************************************)
(* C20                                                                     *)
(***************************************************************************)
Unscored(f) ==
    /\ flow_sub[f] # 0
    /\ pc[f] \notin {"start", "context", "off"}
    /\ NormalizeSlug(track[f]) \notin DOMAIN scorers

\* C20: for a submission whose track has no registered scorer the evaluation
\* never reaches the scorer or the persist step, no container is launched, no
\* outcome is stored in the result cache under its id or shown, and no step of
\* its flow changes the Submission table or hands a notification to the bot.
C20_NoScorerNoOp ==
    [][ \A f \in Flows :
          Unscored(f) =>
            /\ pc[f] \notin {"scoring", "persist"}
            /\ ~launched[f] /\ ~launched'[f]
            /\ result[f] = NoResult /\ result'[f] = NoResult
            /\ results[flow_sub[f]] = NoResult /\ results'[flow_sub[f]] = NoResult
            /\ shown'[f] = <<>>
            /\ pc'[f] # pc[f] => (subs' = subs /\ notes' = notes) ]_vars

\* a flow for a track without a scorer is through, its record still pending
\* and without a value
C20_Witness ==
    \E f \in Flows :
        /\ pc[f] = "done"
        /\ Unscored(f)
        /\ subs[flow_sub[f]] = NewSubmission("t1")
        /\ notes[flow_sub[f]] = <<>>
        /\ results[flow_sub[f]] = NoResult

(***************************************************************************)
(* C21                                                                     *)
(***************************************************************************)
Aborted(f) == context[f] \notin {"none", "ok", "raises"}
LockState == << judge_lock, locks_made, my_lock, locked, waiters >>

\* C21: when the membership, the team, the track or the artifact file of a
\* new submission is not found, the coordinator returns the created record
\* without asking for the lock: the step leaves every lock untouched, no scorer
\* runs for the flow, nothing is stored under the submission's id or shown, and
\* the record stays pending without a value.
C21_AbortBeforeLock ==
    /\ [][ \A f \in Flows :
            (pc[f] = "context" /\ Aborted(f)') =>
                /\ pc'[f] = "audit"
                /\ LockState' = LockState
                /\ subs' = subs /\ results' = results /\ notes' = notes ]_vars
    /\ [](\A f \in Flows :
            Aborted(f) =>
                /\ pc[f] \in {"audit", "home", "done", "failed"}
                /\ my_lock[f] = NoLock
                /\ \A l \in LockIds : \A i \in 1..Len(waiters[l]) : waiters[l][i] # f
                /\ ~launched[f]
                /\ result[f] = NoResult
                /\ results[flow_sub[f]] = NoResult
                /\ shown[f] = <<>>
                /\ subs[flow_sub[f]] = NewSubmission("t1")
                /\ notes[flow_sub[f]] = <<>>)

\* the artifact file of one flow was not found and the flow is through, while
\* the container of another flow is running under the lock
C21_Witness ==
    \E f, g \in Flows :
        /\ context[f] = "no_file"
        /\ pc[f] = "done"
        /\ subs[flow_sub[f]] = NewSubmission("t1")
        /\ pc[g] = "scoring"
        /\ locked[my_lock[g]]

(***************************************************************************)
(* C22                                                                     *)
(***************************************************************************)
\* C22: a flow whose track has no registered scorer never waits for the lock
\* and never gets a lock object, whatever other flows hold.
C22_NoScorerSkipsLock ==
    \A f \in Flows :
        (context[f] = "ok" /\ ~HasScorer(scorers, track[f])) =>
            /\ pc[f] # "waiting"
            /\ my_lock[f] = NoLock

(***************************************************************************)
(* C23                                                                     *)
(***************************************************************************)
CeilDiv(size, bound) == CHOOSE n \in 0..size : n * bound >= size /\ (n - 1) * bound < size
DigitCount(n) == CHOOSE w \in 1..4 : 10^w > n /\ (w = 1 \/ 10^(w - 1) <= n)
RECURSIVE DecimalValue(_)
DecimalValue(digits) ==
    IF digits = <<>> THEN 0
    ELSE 10 * DecimalValue(SubSeq(digits, 1, Len(digits) - 1)) + digits[Len(digits)]
RECURSIVE JoinSent(_)
JoinSent(docs) == IF docs = <<>> THEN <<>> ELSE Head(docs).bytes \o JoinSent(Tail(docs))

\* C23: a finished delivery of an artifact of size S with part bound B has
\* sent, if S <= B, the artifact as one document under its own name, and
\* otherwise exactly ceil(S/B) documents, the k-th named <name>.part<k> with k
\* zero-padded to the number of digits of ceil(S/B), each of at most B bytes
\* and all but the last of exactly B, whose bytes joined in order are the
\* artifact.
C23_SplitDelivery ==
    (d_pc = "done" /\ d_file.exists) =>
        LET size == Len(d_file.bytes)
            bound == d_chunk_size
            n == CeilDiv(size, bound)
        IN  IF size <= bound
            THEN d_sent = << [name |-> [base |-> "artifact", part |-> <<>>],
                              bytes |-> d_file.bytes] >>
            ELSE /\ Len(d_sent) = n
                 /\ \A k \in 1..Len(d_sent) :
                        /\ d_sent[k].name.base = "artifact"
                        /\ Len(d_sent[k].name.part) = DigitCount(n)
                        /\ \A i \in 1..Len(d_sent[k].name.part) :
                               d_sent[k].name.part[i] \in 0..9
                        /\ DecimalValue(d_sent[k].name.part) = k
                        /\ Len(d_sent[k].bytes) <= bound
                        /\ k < n => Len(d_sent[k].bytes) = bound
                 /\ JoinSent(d_sent) = d_file.bytes

\* ten parts of one byte were delivered, the first named .part01
C23_Witness ==
    /\ d_pc = "done"
    /\ Len(d_sent) = 10
    /\ d_sent[1].name.part = << 0, 1 >>
    /\ d_sent[10].name.part = << 1, 0 >>
    /\ JoinSent(d_sent) = d_file.bytes

(***************************************************************************)
(* C24                                                                     *)
(***************************************************************************)
LastTry == d_tries'[Len(d_tries')]

\* C24: a part is attempted at most Retries + 1 times, every attempt before
\* the last one made having ended with TelegramRetryAfter. An attempt that
\* succeeds ends the delivery of the part; one that raises TelegramRetryAfter
\* within the first Retries attempts is followed by a sleep of the advised
\* seconds and another attempt on the same part; TelegramRetryAfter on the
\* last attempt, and any other exception on any attempt, leaves the delivery
\* at once as the exception raised to the caller.
C24_BoundedRetry ==
    /\ [](/\ Len(d_tries) <= Retries + 1
          /\ \A i \in 1..(Len(d_tries) - 1) : d_tries[i].outcome = "retry_after")
    /\ [][  /\ d_pc = "sending" =>
                /\ Len(d_tries') = Len(d_tries) + 1
                /\ LastTry.outcome = "ok" =>
                      /\ d_pc' \in {"part", "done"}
                      /\ d_idx' = d_idx + 1
                      /\ Len(d_sent') = Len(d_sent) + 1
                      /\ d_error' = "none"
                /\ (LastTry.outcome = "retry_after" /\ Len(d_tries') <= Retries) =>
                      /\ d_pc' = "sleep"
                      /\ LastTry.retry_after >= 1 => d_wait' = LastTry.retry_after
                      /\ d_wait' >= 1
                      /\ d_idx' = d_idx
                      /\ d_error' = "none"
                /\ (LastTry.outcome = "retry_after" /\ Len(d_tries') = Retries + 1) =>
                      /\ d_pc' = "raised"
                      /\ d_error' = "retry_after"
                      /\ d_sent' = d_sent
                /\ LastTry.outcome = "other" =>
                      /\ d_pc' = "raised"
                      /\ d_error' = "other"
                      /\ d_sent' = d_sent
            /\ d_pc = "sleep" =>
                /\ d_pc' = "attempt"
                /\ d_idx' = d_idx /\ d_tries' = d_tries /\ d_chunk' = d_chunk
            /\ d_pc = "attempt" => (d_pc' = "sending" /\ d_tries' = d_tries) ]_vars

\* the fourth attempt on a part raised TelegramRetryAfter as well, after a
\* sleep of the three seconds advised
C24_Witness ==
    /\ d_pc = "raised"
    /\ Len(d_tries) = Retries + 1
    /\ d_error = "retry_after"
    /\ d_tries[Retries].retry_after = 3
    /\ d_wait = 3

(***************************************************************************)
(* C25                                                                     *)
(***************************************************************************)
Delivering == d_pc \in {"attempt", "sending", "sleep"}

\* C25: at most one answer_document call of a delivery is awaited at a time
\* and it is for the current part; while part idx is being delivered, and
\* when its delivery was given up, exactly the parts 1..idx-1 have been
\* delivered, in this order; and once an exception has left the delivery
\* nothing more is sent.
C25_SequentialParts ==
    /\ [](/\ Cardinality(d_inflight) <= 1
          /\ d_inflight \subseteq { d_idx }
          /\ (d_inflight # {}) <=> (d_pc = "sending")
          /\ (Delivering \/ (d_pc = "raised" /\ d_tries # <<>>)) =>
                /\ Len(d_sent) = d_idx - 1
                /\ \A k \in 1..Len(d_sent) : d_sent[k].name = PartName(k, d_width))
    /\ [][  /\ d_sent' # d_sent =>
                /\ d_pc \in {"sending", "single"}
                /\ Len(d_sent') = Len(d_sent) + 1
                /\ SubSeq(d_sent', 1, Len(d_sent)) = d_sent
            /\ d_pc = "raised" => UNCHANGED sendVars ]_vars

\* the second of at least three parts was given up after the first was delivered
C25_Witness ==
    /\ d_pc = "raised"
    /\ d_total >= 3
    /\ d_idx = 2
    /\ d_sent = << [name |-> PartName(1, d_width), bytes |-> ReadChunk(d_file.bytes, 0, d_chunk_size)] >>
    /\ d_error = "other"

(***************************************************************************)
(* C26                                                                     *)
(***************************************************************************)
SameSlug(s, t) == NormalizeSlug(s) = NormalizeSlug(t)

\* the scorer of the last register call whose slug is the same after strip
\* and lower as the given one
LastRegistered(regs, slug) ==
    LET hits == { i \in 1..Len(regs) : SameSlug(regs[i].slug, slug) }
    IN  IF hits = {} THEN NoScorer
        ELSE regs[CHOOSE i \in hits : \A j \in hits : j <= i].scorer

\* C26: the evaluation of a submission finds the scorer of the last register
\* call whose slug, stripped and lower-cased, equals the track's slug stripped
\* and lower-cased, and none when no such call was made; and no step other
\* than a register call changes the registry.
C26_RegistryLookup ==
    [][ /\ \A f \in Flows :
              (pc[f] = "lock" /\ pc'[f] \in {"scoring", "persist", "audit"}) =>
                  /\ scorer'[f] = LastRegistered(registered, track[f])
                  /\ (scorer'[f] = NoScorer) => (pc'[f] = "audit" /\ result'[f] = NoResult)
        /\ scorers' # scorers => Len(registered') = Len(registered) + 1
        /\ registered' = registered => scorers' = scorers ]_vars

\* a scorer registered as "A " was found for a track whose slug is " A", and
\* the evaluation is through
C26_Witness ==
    \E f \in Flows :
        /\ registered # <<>>
        /\ registered[Len(registered)] = [slug |-> <<"A", " ">>, scorer |-> "other"]
        /\ track[f] = <<" ", "A">>
        /\ scorer[f] = "other"
        /\ pc[f] = "done"

(***************************************************************************)
(* C27                                                                     *)
(***************************************************************************)
OutputMissing(f) == launched[f] /\ run[f].kind = "exit0" /\ run[f].output = "absent"
\* the write raised: success=False is stored, and the record is as it was or
\* (the audit log failed after the commit) written in full
WriteRaised(f) ==
    /\ result'[f] = FailedResult
    /\ results'[flow_sub[f]] = FailedResult
    /\ \/ subs'[flow_sub[f]] = subs[flow_sub[f]]
       \/ /\ subs'[flow_sub[f]].status = result[f].status
          /\ result[f].value # NoValue => subs'[flow_sub[f]].value = result[f].value

\* C27: when the container exited with 0 and left no output.csv, the outcome
\* is status accepted, value 0, success true with the message that the output
\* is missing, and the persist step stores this outcome and leaves the
\* Submission accepted with value 0, unless the write itself raised.
C27_MissingOutputScoresZero ==
    [][ \A f \in Flows :
          (pc[f] = "persist" /\ OutputMissing(f)) =>
              /\ result[f] = AutoJudgeResult("accepted", 0, Plain("output_missing"), TRUE)
              /\ pc'[f] = "audit" =>
                    \/ /\ result'[f] = result[f]
                       /\ results'[flow_sub[f]] = result[f]
                       /\ subs'[flow_sub[f]].status = "accepted"
                       /\ subs'[flow_sub[f]].value = 0
                    \/ WriteRaised(f) ]_vars

\* the run of a flow left no output, the flow is through and showed the
\* accepted outcome, and its record is accepted with value 0
C27_Witness ==
    \E f \in Flows :
        /\ pc[f] = "done"
        /\ OutputMissing(f)
        /\ subs[flow_sub[f]].status = "accepted"
        /\ subs[flow_sub[f]].value = 0
        /\ shown[f] = << [id |-> flow_sub[f],
                          outcome |-> AutoJudgeResult("accepted", 0, Plain("output_missing"), TRUE)] >>

(***************************************************************************)
(* C28                                                                     *)
(***************************************************************************)
RunFailed(f) == launched[f] /\ run[f].kind \in {"timeout", "nonzero", "no_docker"}

\* C28: when the container timed out, exited with a code other than 0 or
\* could not be launched, the outcome is status error, success false, without
\* a value and without a score in its message, and the persist step sets the
\* Submission's status to error and leaves its value as it was, unless the
\* write itself raised; whatever the write does, the value is left as it was.
C28_FailedRunIsError ==
    [][ \A f \in Flows :
          (pc[f] = "persist" /\ RunFailed(f)) =>
              /\ result[f].status = "error"
              /\ ~result[f].success
              /\ result[f].value = NoValue
              /\ result[f].message.text \in {"timeout", "exit_nonzero", "no_docker"}
              /\ result[f].message.correct = NoValue
              /\ pc'[f] = "audit" =>
                    /\ subs'[flow_sub[f]].value = subs[flow_sub[f]].value
                    /\ \/ /\ result'[f] = result[f]
                          /\ results'[flow_sub[f]] = result[f]
                          /\ subs'[flow_sub[f]].status = "error"
                       \/ WriteRaised(f) ]_vars

\* the container of a flow timed out after an administrator had given the
\* submission a value: the record ends with status error and that value
C28_Witness ==
    \E f \in Flows :
        /\ pc[f] = "done"
        /\ launched[f]
        /\ run[f].kind = "timeout"
        /\ subs[flow_sub[f]].status = "error"
        /\ subs[flow_sub[f]].value = StoredValue(1)
        /\ result[f] = ErrorResult("timeout")

(***************************************************************************)
(* C29                                                                     *)
(***************************************************************************)
\* the archive unpacks to one folder (beside __MACOSX) that holds main.py
\* itself and no child of the folder's own name
OneWrapper(zip) ==
    /\ zip.valid
    /\ \E d \in TopEntries(zip.files) \ {"__MACOSX"} :
        /\ \A p \in zip.files : p[1] \in {d, "__MACOSX"} /\ Len(p) > 1
        /\ << d, "main.py" >> \in zip.files
        /\ \A p \in zip.files : ~(p[1] = d /\ p[2] = d)
\* every main.py of the archive is two or more folders deep
DeepOnly(zip) ==
    /\ zip.valid
    /\ \E p \in zip.files : IsMain(p)
    /\ \A p \in zip.files : IsMain(p) => Len(p) >= 3

RunInProgress == \E f \in Flows : pc[f] = "scoring"

InsideRoot(path) == RelativeTo(ResolvePath(path), DataRoot)
RecordInside(i) == InsideRoot(JoinPath(DataRoot, rows[i].file_path))

Uploading(c) == p_pc[c] \in {"single", "parts", "stored", "written"}
Chunked(c) == p_pc[c] \in {"parts", "stored"}

\* C37: two uploads in progress at the same time have different destination
\* paths and, when both are chunked, different tmp directories; an artifact
\* that an upload has written holds that upload's bytes; and any two
\* Submission records have different file paths.
C37_NoSharedPaths ==
    /\ \A c, d \in Uploaders :
          (c # d /\ Uploading(c) /\ Uploading(d)) =>
              /\ p_plan[c].dest_path # p_plan[d].dest_path
              /\ (Chunked(c) /\ Chunked(d)) => p_plan[c].tmp_dir # p_plan[d].tmp_dir
    /\ \A c \in Uploaders :
          p_pc[c] = "written" =>
              /\ Exists(p_plan[c].dest_path, disk)
              /\ Content(disk, p_plan[c].dest_path) = c
    /\ \A i, j \in 1..Len(rows) : i # j => rows[i].file_path # rows[j].file_path

(***************************************************************************)
(* C32                                                                     *)
(***************************************************************************)
\* the name ends with .zip, in any case
EndsWithZip(name) == name \in {"x.zip", "X.ZIP", ".zip"}
\* the name is that of a part: something, .zip, .part and digits, in any case
PartNamed(name) == name \in {"x.zip.part1", "x.ZIP.PART2"}
DocumentArrives == event'.kind \in {"part", "zip", "other"} /\ h_pc[1] = "idle"
TransferState == << fsm, data, tmp_files, workspace, dest, submitted >>
Rejected(answer) ==
    /\ h_pc'[1] = "idle"
    /\ reply' = Answer(answer)
    /\ TransferState' = TransferState
    /\ ui' = ui

\* C32: a document that arrives outside a chunked session starts a single
\* transfer only when no session is open and its name ends with .zip; a
\* part-named document that arrives when no session is open, and every
\* document that arrives while the number of parts is awaited, is answered
\* with a refusal, starts no download, and leaves the FSM state, the session
\* data, the files and the Submission records as they were.
C32_SingleTransferNaming ==
    [][ DocumentArrives =>
          /\ h_pc'[1] = "single" => (fsm = "none" /\ EndsWithZip(event'.word))
          /\ (fsm = "none" /\ PartNamed(event'.word)) => Rejected("not_started")
          /\ (fsm = "none" /\ ~PartNamed(event'.word) /\ ~EndsWithZip(event'.word)) =>
                Rejected("not_zip")
          /\ fsm = "waiting_total" => Rejected("need_total")
          /\ fsm # "collecting" => (h_pc'[1] \in {"idle", "single"} /\ submitted' = submitted)
      ]_vars

\* a document with a part name in capitals was refused with no session open:
\* no handler is at work, nothing was submitted, the chat is still in submit mode
C32_Witness ==
    /\ fsm = "none"
    /\ event.word = "x.ZIP.PART2"
    /\ reply = Answer("not_started")
    /\ h_pc[1] = "idle"
    /\ submitted = <<>>
    /\ ui = "submit"

(***************************************************************************)
(* C33: a title change alone does not justify a message.  When the notify  *)
(* step of an update has run and the updated record has the status and the *)
(* value of the pre-update snapshot, no message was handed to the bot,     *)
(* whether or not the title differs from the snapshot's.                   *)
(***************************************************************************)
NotifyStepDone == u_pc \in {"audit", "returned"}

SameStatusAndValue ==
    /\ u_prev # NoSub
    /\ u_prev.status = u_updated.status
    /\ u_prev.value = u_updated.value

PersistStep(i) ==
    \E f \in Flows : pc[f] = "persist" /\ pc'[f] = "audit" /\ flow_sub[f] = i

RatingStep == admin_left' = admin_left - 1

C34_RatedOnlyByJudgeOrAdmin ==
    [][ /\ \A i \in SubIds :
            subs[i] # NoSub =>
                /\ subs'[i] # NoSub
                /\ (subs'[i].value # subs[i].value \/ subs'[i].status # subs[i].status) =>
                        (PersistStep(i) \/ RatingStep)
        /\ Len(submitted') >= Len(submitted)
        /\ SubSeq(submitted', 1, Len(submitted)) = submitted ]_vars

\* C34 witness: beside the rated record, the upload's record exists and was
\* rated by the coordinator, a chunked upload made a submission and a delivery
\* sent the artifact in parts
C34_Witness ==
    /\ subs[2] # NoSub
    /\ subs[1] # NoSub
    /\ subs[1].status = "accepted"
    /\ \E f \in Flows : flow_sub[f] = 1 /\ pc[f] = "done"
    /\ submitted # <<>>
    /\ Len(d_sent) >= 2

(***************************************************************************)
(* C35: in every state of a chunked upload the number of received parts is *)
(* between 0 and the declared total and the part list has that many        *)
(* entries; a handler assembles only a list of exactly the declared total, *)
(* and once the declared total is received no further part is accepted     *)
(* for download, also after failed downloads, assemblies and creations.    *)
(***************************************************************************)
Assembling(h) == h_pc[h] \in {"assemble", "copy", "create"}

CountsInRange ==
    /\ 0 <= data.received
    /\ data.received <= data.expected
    /\ Len(data.parts) = data.received

C35_CountsWithinTotal ==
    (fsm = "collecting" /\ data.expected # 0) =>
        /\ CountsInRange
        /\ \A h \in Handlers :
            Assembling(h) => (h_data[h].received = data.expected /\ Len(h_data[h].parts) = data.expected)
        /\ data.received = data.expected => \A h \in Handlers : h_pc[h] # "download"

(***************************************************************************)
(* C36: while the part messages of one chat are handled by interleaved     *)
(* handlers, in every step within a session the number of received parts   *)
(* does not decrease and the part list keeps every part it had.            *)
(***************************************************************************)
SameSession == fsm = "collecting" /\ fsm' = "collecting" /\ data'.expected = data.expected

C36_NoLostPart ==
    [][ SameSession =>
            /\ data'.received >= data.received
            /\ Len(data'.parts) >= Len(data.parts)
            /\ SubSeq(data'.parts, 1, Len(data.parts)) = data.parts ]_vars

(***************************************************************************)
(* C38: when the download of an accepted part fails, the part file is      *)
(* removed and the base index, the received count, the part list and the   *)
(* FSM state are what the handler found when the part arrived; the same    *)
(* part sent again is accepted for download.                               *)
(***************************************************************************)
DownloadFails(h) ==
    /\ h_pc[h] = "download"
    /\ h_pc'[h] = "idle"
    /\ reply'.kind = "download_failed"

NotCounted(h) ==
    /\ tmp_files'[h_doc[h].n] = NoFile
    /\ fsm' = "collecting"
    /\ data'.received = h_data[h].received
    /\ data'.parts = h_data[h].parts

ResendAccepted(h) ==
    RouteDocument(fsm', data', h_doc[h], "ok", Len(submitted') + 1).pc = "download"

C38_FailedDownloadNotCounted ==
    [][ \A h \in Handlers :
            DownloadFails(h) =>
                /\ NotCounted(h)
                /\ data'.first_part = h_data[h].base_number_raw
                /\ ResendAccepted(h) ]_vars

(***************************************************************************)
(* C39: a Submission record always has its artifact on disk.  A record is  *)
(* created only in a step after which the whole artifact is at the         *)
(* destination, and the destination is removed only when no record was     *)
(* created under the plan it belongs to.                                   *)
(***************************************************************************)
RecordCreated == Len(submitted') > Len(submitted)

\* the chunked session's plan, numbered by count_submissions + 1, has its record
PlanHasRecord == data.plan # NoPlan /\ Len(submitted) >= data.plan

C39_RecordHasArtifact ==
    [][ /\ RecordCreated =>
            (dest'.exists /\ dest'.bytes = submitted'[Len(submitted')])
        /\ (PlanHasRecord /\ dest.exists) => dest'.exists ]_vars

(***************************************************************************)
(* C40: the text cancel or stop while the total is awaited, Back, and a    *)
(* fresh "send in parts" request discard the session: after the step the   *)
(* FSM data holds no expected count, base, received count or part list,    *)
(* and no part file of the old session is left in the tmp directory, so    *)
(* that a part sent next starts from nothing.                              *)
(***************************************************************************)
Cancels == fsm = "waiting_total" /\ event'.kind = "text" /\ IsCancel(event')
GoesBack == event'.kind = "back" \/ (event'.kind = "text" /\ event'.word = "back_button")
AsksAgain == event'.kind = "send_parts"

DataDiscarded ==
    /\ data'.expected = 0
    /\ data'.first_part = NoPart
    /\ data'.received = 0
    /\ data'.parts = <<>>

PartsDiscarded == \A n \in PartNos : ~tmp_files'[n].exists

C40_DiscardLeavesNothing ==
    [][ (Cancels \/ GoesBack \/ AsksAgain) => (DataDiscarded /\ PartsDiscarded) ]_vars
====
